---- MODULE Spec2Model ----
(***************************************************************************)
(* SignalLang front end: symbol table, error handler, streaming lexer,     *)
(* three-address-code generator and dead code eliminator.                  *)
(*                                                                         *)
(* Strings of the program (identifier names, temporaries, addresses,       *)
(* literals) are sequences of one-character strings, so that the code's    *)
(* tests on the first character (name[0] == 't') and its concatenations    *)
(* ("t" + to_string(n)) are computed, not assumed.                         *)
(***************************************************************************)
EXTENDS Integers, Sequences, FiniteSets, TLC

VARIABLES
    \* SymbolTable
    scopes,            \* vector<unordered_map<string, SymbolEntry>>
    nextMemoryIndex,   \* int
    errHandler,        \* TRUE iff SymbolTable::errHandler is not nullptr
    \* ErrorHandler
    errors,            \* vector<CompilerError>
    stopOnFatal,       \* bool
    \* process level
    cerr,              \* what the fallbacks wrote to stderr
    fault,             \* "none", "throw" (runtime_error in flight), "segv"
    \* Lexer
    src,               \* the source, as the sequence of its lexemes
    idx,               \* position of the next lexeme (1-based)
    symtab,            \* TRUE iff Lexer::symtab is not nullptr
    \* TACGenerator
    cur,               \* lookahead token
    tempCounter,       \* int
    freeTemps,         \* stack<string>, top is the last element
    tac,               \* the vector<TacInst> generate() appends to
    pc,                \* control point of generate()
    lhs, lhsLine,      \* locals of parseStatement
    eHas, eLeft, eOp,  \* locals of parseExpression (eHas: inside the loop)
    tHas, tLeft, tOp,  \* locals of parseTerm (tHas: inside the loop)
    fres,              \* result of the last parseFactor
    genRet,            \* what generate() returned ("pending" before it returns)
    \* DeadCodeEliminator
    dceIn, dceOut, dceOut2,
    \* client of the SymbolTable API
    lastCall,          \* the last API call and what it returned (a bool, or the
                       \* vector getUnusedEntries returned)
    calls              \* number of API calls made

symVars  == <<scopes, nextMemoryIndex, errHandler>>
errVars  == <<errors, stopOnFatal>>
procVars == <<cerr, fault>>
lexVars  == <<src, idx, symtab>>
genVars  == <<cur, tempCounter, freeTemps, tac, pc, lhs, lhsLine,
              eHas, eLeft, eOp, tHas, tLeft, tOp, fres, genRet>>
dceVars  == <<dceIn, dceOut, dceOut2>>
apiVars  == <<lastCall, calls>>
vars     == <<symVars, errVars, procVars, lexVars, genVars, dceVars, apiVars>>

----------------------------------------------------------------------------
(* Bounds *)

MaxDepth == 2          \* frames a client pushes on top of the global one
MaxCalls == 4          \* API calls in one behaviour of SpecSym
MaxRaw == 4            \* lexemes of an arbitrary (possibly malformed) source
MaxOperands == 3       \* operands of one right-hand side of a grammatical source
MaxProgTokens == 10    \* lexemes of a grammatical source
MaxInsts == 3          \* instructions of an arbitrary sequence given to eliminate
MaxReports == 4        \* calls a client makes on one ErrorHandler
MaxJunk == 2           \* lexemes before and after the statement of a damaged source

----------------------------------------------------------------------------
(* Strings *)

EmptyStr == <<>>

DecDigit(d) == <<"0", "1", "2", "3", "4", "5", "6", "7", "8", "9">>[d + 1]

HexDigit(d) == <<"0", "1", "2", "3", "4", "5", "6", "7", "8", "9",
                 "a", "b", "c", "d", "e", "f">>[d + 1]

RECURSIVE to_string(_)
to_string(n) ==
    IF n < 10 THEN <<DecDigit(n)>>
    ELSE to_string(n \div 10) \o <<DecDigit(n % 10)>>

RECURSIVE to_hex(_)
to_hex(n) ==
    IF n < 16 THEN <<HexDigit(n)>>
    ELSE to_hex(n \div 16) \o <<HexDigit(n % 16)>>

----------------------------------------------------------------------------
(* The world the operations act on: symbol table, error handler, stderr    *)
(* and the fault in flight.  Operations are functions from world to world  *)
(* so that a handler that calls several of them is one action.             *)

World ==
    [scopes |-> scopes, nextMemoryIndex |-> nextMemoryIndex,
     errHandler |-> errHandler, errors |-> errors, stopOnFatal |-> stopOnFatal,
     cerr |-> cerr, fault |-> fault]

SetWorld(w) ==
    /\ scopes' = w.scopes
    /\ nextMemoryIndex' = w.nextMemoryIndex
    /\ errHandler' = w.errHandler
    /\ errors' = w.errors
    /\ stopOnFatal' = w.stopOnFatal
    /\ cerr' = w.cerr
    /\ fault' = w.fault

----------------------------------------------------------------------------
(* ErrorHandler *)

CompilerError(p, s, msg, l, c, r) ==
    [phase |-> p, severity |-> s, message |-> msg, line |-> l, column |-> c,
     recoverable |-> r]

\* a mutation of report: a recoverable FATAL halts too
reportHaltsRecoverable(w, p, s, message, line, col, recoverable) ==
    IF w.fault # "none" THEN w
    ELSE [w EXCEPT !.errors = Append(@, CompilerError(p, s, message, line, col, recoverable)),
                   !.fault = IF s = "FATAL" /\ w.stopOnFatal THEN "throw" ELSE @]

\* a mutation of report: every report is treated as a fatal, non-recoverable one
reportAlwaysHalts(w, p, s, message, line, col, recoverable) ==
    IF w.fault # "none" THEN w
    ELSE [w EXCEPT !.errors = Append(@, CompilerError(p, s, message, line, col, recoverable)),
                   !.fault = IF w.stopOnFatal THEN "throw" ELSE @]

report(w, p, s, message, line, col, recoverable) ==
    IF w.fault # "none" THEN w
    ELSE LET w1 == [w EXCEPT !.errors =
                        Append(@, CompilerError(p, s, message, line, col, recoverable))]
         IN  IF ~recoverable /\ s = "FATAL" /\ w.stopOnFatal
             THEN [w1 EXCEPT !.fault = "throw"]
             ELSE w1

\* line, col and recoverable default to -1, -1 and true at the call sites
reportError(w, p, message, line, col, recoverable) ==
    report(w, p, "ERROR", message, line, col, recoverable)

reportWarning(w, p, message, line, col) ==
    report(w, p, "WARNING", message, line, col, TRUE)

reportInfo(w, p, message, line, col) ==
    report(w, p, "INFO", message, line, col, TRUE)

reportFatal(w, p, message, line, col) ==
    report(w, p, "FATAL", message, line, col, FALSE)

setStopOnFatal(w, v) == [w EXCEPT !.stopOnFatal = v]

\* a mutation of errorCount: only the records of severity ERROR are counted
RECURSIVE errorCountErrorsOnly(_, _)
errorCountErrorsOnly(errs, i) ==
    IF i > Len(errs) THEN 0
    ELSE (IF errs[i].severity = "ERROR" THEN 1 ELSE 0) + errorCountErrorsOnly(errs, i + 1)

\* the loop of errorCount from record i on
RECURSIVE errorCountFrom(_, _)
errorCountFrom(errs, i) ==
    IF i > Len(errs) THEN 0
    ELSE (IF errs[i].severity = "FATAL" \/ errs[i].severity = "ERROR" THEN 1 ELSE 0)
         + errorCountFrom(errs, i + 1)

errorCount(errs) == errorCountFrom(errs, 1)

RECURSIVE warningCountFrom(_, _)
warningCountFrom(errs, i) ==
    IF i > Len(errs) THEN 0
    ELSE (IF errs[i].severity = "WARNING" THEN 1 ELSE 0) + warningCountFrom(errs, i + 1)

warningCount(errs) == warningCountFrom(errs, 1)

RECURSIVE hasFatalFrom(_, _)
hasFatalFrom(errs, i) ==
    IF i > Len(errs) THEN FALSE
    ELSE IF errs[i].severity = "FATAL" THEN TRUE
    ELSE hasFatalFrom(errs, i + 1)

hasFatal(errs) == hasFatalFrom(errs, 1)

\* getAll returns a copy of the stored vector
getAll(errs) == errs

\* ErrorHandler::clear
clearErrors(w) == [w EXCEPT !.errors = <<>>]

----------------------------------------------------------------------------
(* SymbolTable *)

SymbolEntry(n, k, t, s, line) ==
    [name |-> n, kind |-> k, type |-> t, scopeLevel |-> s,
     memoryAddr |-> EmptyStr, value |-> EmptyStr, is_state |-> FALSE,
     is_used |-> FALSE, decl_line |-> line, is_dummy |-> FALSE]

EmptyFrame == [n \in {} |-> n]

\* scopes.size()-1 converted to int: -1 when no frame is left
currentScope(w) == Len(w.scopes) - 1

beginScope(w) == [w EXCEPT !.scopes = Append(@, EmptyFrame)]

endScope(w) ==
    IF Len(w.scopes) # 0
    THEN [w EXCEPT !.scopes = SubSeq(@, 1, Len(@) - 1)]
    ELSE w

DupMessage(attempt, existing) ==
    <<"Duplicate declaration of", attempt.name, existing.decl_line>>

reportDuplicate(w, existing, attempt) ==
    IF w.errHandler
    THEN reportError(w, "SEMANTIC", DupMessage(attempt, existing),
                     attempt.decl_line, -1, TRUE)
    ELSE [w EXCEPT !.cerr = Append(@, DupMessage(attempt, existing))]

\* a mutation of NewAddress: the slot is numbered by the scope level
NewAddressByLevel(e, n) ==
    IF e.kind = "variable" /\ e.is_state
    THEN <<"0", "x">> \o to_hex(4096 + e.scopeLevel)
    ELSE IF e.kind = "variable" /\ e.scopeLevel = 0
    THEN <<"0", "x">> \o to_hex(4096 + e.scopeLevel)
    ELSE <<"s", "t", "k">> \o to_string(e.scopeLevel)

\* the address insert gives an entry that comes without one
NewAddress(e, n) ==
    IF e.kind = "variable" /\ e.is_state
    THEN <<"0", "x">> \o to_hex(4096 + n)
    ELSE IF e.kind = "variable" /\ e.scopeLevel = 0
    THEN <<"0", "x">> \o to_hex(4096 + n)
    ELSE <<"s", "t", "k">> \o to_string(n)

insert(w, entry) ==
    IF Len(w.scopes) = 0 THEN [w |-> w, ret |-> FALSE]
    ELSE LET top   == Len(w.scopes)
             table == w.scopes[top]
         IN  IF entry.name \in DOMAIN table
             THEN [w |-> reportDuplicate(w, table[entry.name], entry), ret |-> FALSE]
             ELSE LET e0 == [entry EXCEPT !.scopeLevel = currentScope(w)]
                      fresh == e0.memoryAddr = EmptyStr
                      e  == IF fresh
                            THEN [e0 EXCEPT !.memoryAddr =
                                      NewAddress(e0, w.nextMemoryIndex)]
                            ELSE e0
                  IN  [w |-> [w EXCEPT !.scopes[top] = (e.name :> e) @@ table,
                                       !.nextMemoryIndex = IF fresh THEN @ + 1 ELSE @],
                       ret |-> TRUE]

\* a mutation of lookup: the scan goes from the outermost frame inwards
RECURSIVE lookupOutermostFirst(_, _, _)
lookupOutermostFirst(sc, name, i) ==
    LET j == Len(sc) + 1 - i
    IN  IF i = 0 THEN 0
        ELSE IF name \in DOMAIN sc[j] THEN j
        ELSE lookupOutermostFirst(sc, name, i - 1)

\* the scan of lookup from frame i down to frame 1; the result is the index
\* of the frame that holds the entry found, 0 standing for nullptr
RECURSIVE lookupFrom(_, _, _)
lookupFrom(sc, name, i) ==
    IF i = 0 THEN 0
    ELSE IF name \in DOMAIN sc[i] THEN i
    ELSE lookupFrom(sc, name, i - 1)

lookup(sc, name) == lookupFrom(sc, name, Len(sc))

lookupLocal(sc, name) ==
    IF Len(sc) = 0 THEN 0
    ELSE IF name \notin DOMAIN sc[Len(sc)] THEN 0
    ELSE Len(sc)

existsInCurrentScope(sc, name) == lookupLocal(sc, name) # 0

insertTokenPlaceholder(w, name, token_line) ==
    IF existsInCurrentScope(w.scopes, name) THEN [w |-> w, ret |-> FALSE]
    ELSE insert(w, [SymbolEntry(name, "token", "unknown", currentScope(w), token_line)
                       EXCEPT !.is_dummy = TRUE, !.decl_line = token_line])

UndeclMessage(name) == <<"Undeclared Identifier", name>>

\* a mutation of markUsed: the flag of an entry that exists is flipped
markUsedToggles(w, name, ub) ==
    LET d == [SymbolEntry(name, "variable", "unknown", 0, -1)
                 EXCEPT !.is_dummy = TRUE, !.is_used = TRUE]
        f == lookup(w.scopes, name)
    IN  IF f # 0 THEN [w EXCEPT !.scopes[f][name].is_used = ~@]
        ELSE IF ~w.errHandler THEN [w EXCEPT !.fault = ub]
        ELSE LET w1 == reportError(w, "SEMANTIC", <<"Undeclared Identifier", name>>,
                                   -1, -1, TRUE)
             IN  IF Len(w1.scopes) # 0 THEN [w1 EXCEPT !.scopes[1] = (name :> d) @@ @]
                 ELSE w1

\* ub: what the call through a null errHandler does ("segv" or "skip")
markUsed(w, name, ub) ==
    LET f == lookup(w.scopes, name)
    IN  IF f # 0
        THEN [w EXCEPT !.scopes[f][name].is_used = TRUE]
        ELSE LET w1 == IF w.errHandler
                       THEN reportError(w, "SEMANTIC", UndeclMessage(name), -1, -1, TRUE)
                       ELSE IF ub = "segv" THEN [w EXCEPT !.fault = "segv"]
                       ELSE w
                 d  == [SymbolEntry(name, "variable", "unknown", 0, -1)
                           EXCEPT !.is_dummy = TRUE, !.is_used = TRUE]
             IN  IF w1.fault # "none" THEN w1
                 ELSE IF Len(w1.scopes) # 0
                 THEN [w1 EXCEPT !.scopes[1] = (name :> d) @@ @]
                 ELSE w1

\* a mutation of updateEntry: the entry is located through all frames
updateEntryAnyFrame(w, name, updater) ==
    IF lookup(w.scopes, name) # 0
    THEN [w |-> [w EXCEPT !.scopes[lookup(w.scopes, name)][name] = updater @@ @],
          ret |-> TRUE]
    ELSE LET r == insert(w, SymbolEntry(name, "variable", "unknown", currentScope(w), -1))
         IN  IF ~r.ret THEN [w |-> r.w, ret |-> FALSE]
             ELSE [w |-> [r.w EXCEPT !.scopes[Len(r.w.scopes)][name] = updater @@ @],
                   ret |-> TRUE]

\* the updater is given as the fields it assigns and their new values
updateEntry(w, name, updater) ==
    IF lookupLocal(w.scopes, name) # 0
    THEN [w |-> [w EXCEPT !.scopes[Len(w.scopes)][name] = updater @@ @], ret |-> TRUE]
    ELSE LET r == insert(w, SymbolEntry(name, "variable", "unknown", currentScope(w), -1))
         IN  IF ~r.ret THEN [w |-> r.w, ret |-> FALSE]
             ELSE IF lookupLocal(r.w.scopes, name) = 0 THEN [w |-> r.w, ret |-> FALSE]
             ELSE [w |-> [r.w EXCEPT !.scopes[Len(r.w.scopes)][name] = updater @@ @],
                   ret |-> TRUE]

\* the names of one frame in some order (unordered_map iteration order)
RECURSIVE SetToSeq(_)
SetToSeq(S) ==
    IF S = {} THEN <<>>
    ELSE LET e == CHOOSE e \in S : TRUE IN <<e>> \o SetToSeq(S \ {e})

\* a traversal that starts at the global frame instead of the innermost one
RECURSIVE unusedOutermostFirst(_, _)
unusedOutermostFirst(sc, i) ==
    IF i = 0 THEN <<>>
    ELSE LET names == SetToSeq({n \in DOMAIN sc[i] : ~sc[i][n].is_used})
         IN  unusedOutermostFirst(sc, i - 1) \o [k \in 1..Len(names) |-> sc[i][names[k]]]

RECURSIVE unusedFrom(_, _)
unusedFrom(sc, i) ==
    IF i = 0 THEN <<>>
    ELSE LET names == SetToSeq({n \in DOMAIN sc[i] : ~sc[i][n].is_used})
         IN  [k \in 1..Len(names) |-> sc[i][names[k]]] \o unusedFrom(sc, i - 1)

getUnusedEntries(sc) == unusedFrom(sc, Len(sc))

clear(w) == [w EXCEPT !.scopes = <<EmptyFrame>>, !.nextMemoryIndex = 0]

----------------------------------------------------------------------------
(* Lexer.  The source is given as the sequence of its lexemes; the layout  *)
(* is one lexeme per column and a newline after every ';'.                 *)

Lexeme(k, l) == [kind |-> k, lexeme |-> l]

Token(k, l, line, column) == [kind |-> k, lexeme |-> l, line |-> line, column |-> column]

NoToken == Token("UNKNOWN", EmptyStr, 0, 0)

\* line and col of the lexer when it stands before lexeme i
LineAt(s, i) == 1 + Cardinality({j \in 1..Len(s) : j < i /\ s[j].kind = "SEMICOLON"})

ColAt(s, i) ==
    LET semis == {j \in 1..Len(s) : j < i /\ s[j].kind = "SEMICOLON"}
        last  == IF semis = {} THEN 0 ELSE CHOOSE j \in semis : \A k \in semis : k <= j
    IN  i - last

lexIdentifier(w, s, i, linked) ==
    LET lex == s[i].lexeme
        w1  == IF linked /\ ~existsInCurrentScope(w.scopes, lex)
               THEN insertTokenPlaceholder(w, lex, LineAt(s, i)).w
               ELSE w
    IN  [w |-> w1, idx |-> i + 1, tok |-> Token("IDENT", lex, LineAt(s, i), ColAt(s, i))]

lexOperatorOrSymbol(w, s, i) ==
    LET t == Token(s[i].kind, s[i].lexeme, LineAt(s, i), ColAt(s, i))
    IN  IF s[i].kind = "UNKNOWN"
        THEN [w |-> reportError(w, "LEXICAL", <<"Unrecognized symbol", s[i].lexeme>>,
                                LineAt(s, i), ColAt(s, i) + 1, TRUE),
              idx |-> i + 1, tok |-> t]
        ELSE [w |-> w, idx |-> i + 1, tok |-> t]

getNextToken(w, s, i, linked) ==
    IF i > Len(s)
    THEN [w |-> w, idx |-> i, tok |-> Token("END_OF_FILE", <<"<", "E", "O", "F", ">">>,
                                            LineAt(s, i), ColAt(s, i))]
    ELSE IF s[i].kind = "IDENT" THEN lexIdentifier(w, s, i, linked)
    ELSE IF s[i].kind = "FLOAT_LIT"
    THEN [w |-> w, idx |-> i + 1,
          tok |-> Token("FLOAT_LIT", s[i].lexeme, LineAt(s, i), ColAt(s, i))]
    ELSE lexOperatorOrSymbol(w, s, i)

----------------------------------------------------------------------------
(* Three-address code *)

TacInst == [op |-> "NOP", dest |-> EmptyStr, arg1 |-> EmptyStr, arg2 |-> EmptyStr,
            arg1Literal |-> EmptyStr]

LoadConst(d, lit) == [TacInst EXCEPT !.op = "LOAD_CONST", !.dest = d, !.arg1Literal = lit]
Binary(op, d, a, b) == [TacInst EXCEPT !.op = op, !.dest = d, !.arg1 = a, !.arg2 = b]
Assign(d, a) == [TacInst EXCEPT !.op = "ASSIGN", !.dest = d, !.arg1 = a]

BinaryOps == {"ADD", "SUB", "MUL", "DIV"}

----------------------------------------------------------------------------
(* TACGenerator.  A record g carries what one handler threads through the  *)
(* calls it makes: the world, the lexer position, the lookahead, the       *)
(* temporaries and the emitted code.                                       *)

Gen ==
    [w |-> World, idx |-> idx, cur |-> cur, tempCounter |-> tempCounter,
     freeTemps |-> freeTemps, tac |-> tac]

SetGen(g) ==
    /\ SetWorld(g.w)
    /\ idx' = g.idx
    /\ cur' = g.cur
    /\ tempCounter' = g.tempCounter
    /\ freeTemps' = g.freeTemps
    /\ tac' = g.tac

\* where control goes next: an exception in flight leaves generate()
Goto(g, target) == pc' = IF g.w.fault # "none" THEN "threw" ELSE target

nextToken(g) ==
    LET r == getNextToken(g.w, src, g.idx, symtab)
    IN  [g EXCEPT !.w = r.w, !.idx = r.idx, !.cur = r.tok]

\* a mutation of newTemp: the counter is not advanced
newTempSameCounter(g) ==
    IF Len(g.freeTemps) # 0
    THEN [g |-> [g EXCEPT !.freeTemps = SubSeq(@, 1, Len(@) - 1)],
          t |-> g.freeTemps[Len(g.freeTemps)]]
    ELSE [g |-> g, t |-> <<"t">> \o to_string(g.tempCounter)]

newTemp(g) ==
    IF Len(g.freeTemps) # 0
    THEN [g |-> [g EXCEPT !.freeTemps = SubSeq(@, 1, Len(@) - 1)],
          t |-> g.freeTemps[Len(g.freeTemps)]]
    ELSE [g |-> [g EXCEPT !.tempCounter = @ + 1],
          t |-> <<"t">> \o to_string(g.tempCounter)]

emitLoadConst(g, dest, literal) == [g EXCEPT !.tac = Append(@, LoadConst(dest, literal))]
emitBinary(g, op, dest, a, b) == [g EXCEPT !.tac = Append(@, Binary(op, dest, a, b))]
\* a mutation of emitAssign: the Assign takes the place of the last instruction
emitAssignOverwrites(g, dest, s) ==
    [g EXCEPT !.tac = IF Len(@) = 0 THEN <<Assign(dest, s)>>
                      ELSE [@ EXCEPT ![Len(@)] = Assign(dest, s)]]

emitAssign(g, dest, s) == [g EXCEPT !.tac = Append(@, Assign(dest, s))]

\* err->reportError(ErrorPhase::SYNTAX, msg, cur.line, cur.column)
syntaxError(g, msg) ==
    [g EXCEPT !.w = reportError(g.w, "SYNTAX", <<msg>>, g.cur.line, g.cur.column, TRUE)]

\* "release temps": push left, then right, when they start with 't'
release(g, left, right) ==
    LET f1 == IF Len(left) > 0 /\ left[1] = "t"
              THEN Append(g.freeTemps, left) ELSE g.freeTemps
        f2 == IF Len(right) > 0 /\ right[1] = "t" THEN Append(f1, right) ELSE f1
    IN  [g EXCEPT !.freeTemps = f2]

\* a mutation of fold: the result is released together with the operands
foldReleasesResult(g, op, left, right) ==
    LET n == newTemp(g)
        r == release(emitBinary(n.g, op, n.t, left, right), left, right)
    IN  [g |-> [r EXCEPT !.freeTemps = Append(@, n.t)], t |-> n.t]

\* one application of a binary operator in parseExpression / parseTerm
fold(g, op, left, right) ==
    LET n == newTemp(g)
    IN  [g |-> release(emitBinary(n.g, op, n.t, left, right), left, right), t |-> n.t]

\* a mutation of OpOf: '/' is lowered as a multiplication
OpOfNoDivide(kind) ==
    IF kind = "PLUS" THEN "ADD"
    ELSE IF kind = "MINUS" THEN "SUB"
    ELSE "MUL"

OpOf(kind) ==
    IF kind = "PLUS" THEN "ADD"
    ELSE IF kind = "MINUS" THEN "SUB"
    ELSE IF kind = "STAR" THEN "MUL"
    ELSE "DIV"

\* the promotion parseStatement applies to a dummy entry
promote(line) ==
    [kind |-> "variable", type |-> "float", is_dummy |-> FALSE, decl_line |-> line]

\* a mutation of declare: the left-hand side is inserted without looking it up
declareAlwaysInserts(w, name, line) ==
    insert(w, SymbolEntry(name, "variable", "float", currentScope(w), line)).w

\* "semantic: ensure lhs exists (or insert)" of parseStatement
declare(w, name, line) ==
    LET f == lookup(w.scopes, name)
    IN  IF f # 0
        THEN IF w.scopes[f][name].is_dummy
             THEN updateEntry(w, name, promote(line)).w
             ELSE w
        ELSE insert(w, SymbolEntry(name, "variable", "float", currentScope(w), line)).w

----------------------------------------------------------------------------
(* DeadCodeEliminator *)

\* a mutation of usesOf: only the binary instructions read names
usesOfBinaryOnly(i) ==
    IF i.op \in BinaryOps
    THEN (IF i.arg1 # EmptyStr THEN <<i.arg1>> ELSE <<>>)
         \o (IF i.arg2 # EmptyStr THEN <<i.arg2>> ELSE <<>>)
    ELSE <<>>

\* a mutation of usesOf: the second operand of a binary instruction is not read
usesOfFirstOnly(i) ==
    IF i.op = "ASSIGN" \/ i.op \in BinaryOps
    THEN (IF i.arg1 # EmptyStr THEN <<i.arg1>> ELSE <<>>)
    ELSE <<>>

usesOf(i) ==
    IF i.op = "ASSIGN"
    THEN (IF i.arg1 # EmptyStr THEN <<i.arg1>> ELSE <<>>)
    ELSE IF i.op \in BinaryOps
    THEN (IF i.arg1 # EmptyStr THEN <<i.arg1>> ELSE <<>>)
         \o (IF i.arg2 # EmptyStr THEN <<i.arg2>> ELSE <<>>)
    ELSE <<>>

Range(f) == {f[k] : k \in DOMAIN f}

\* a mutation of seedLive: the test on the unused report is inverted
seedLiveFromUnused(t, sc) ==
    LET declared  == {t[k].dest : k \in {j \in 1..Len(t) :
                                          t[j].dest # EmptyStr /\ t[j].dest[1] # "t"}}
        unusedSet == {e.name : e \in Range(getUnusedEntries(sc))}
    IN  {name \in declared : name \in unusedSet}

\* the seed of the live set: named destinations that are not reported unused
seedLive(t, sc) ==
    LET declared  == {t[k].dest : k \in {j \in 1..Len(t) :
                                          t[j].dest # EmptyStr /\ t[j].dest[1] # "t"}}
        unusedSet == {e.name : e \in Range(getUnusedEntries(sc))}
    IN  {name \in declared : name \notin unusedSet}

\* a mutation of backward: a kept definition removes its name from the live set
RECURSIVE backwardKills(_, _, _)
backwardKills(t, i, live) ==
    IF i = 0 THEN {}
    ELSE IF t[i].dest # EmptyStr /\ t[i].dest \in live
    THEN {i} \cup backwardKills(t, i - 1, (live \ {t[i].dest})
                                            \cup {u \in Range(usesOf(t[i])) : u # EmptyStr})
    ELSE backwardKills(t, i - 1, live)

\* the backward traversal from instruction i: the indices it keeps
RECURSIVE backward(_, _, _)
backward(t, i, live) ==
    IF i = 0 THEN {}
    ELSE IF t[i].dest # EmptyStr /\ t[i].dest \in live
    THEN {i} \cup backward(t, i - 1, live \cup {u \in Range(usesOf(t[i])) : u # EmptyStr})
    ELSE backward(t, i - 1, live)

\* a mutation of reconstruct: the loop stops one instruction early
RECURSIVE reconstructSkipsLast(_, _, _)
reconstructSkipsLast(t, keep, i) ==
    IF i >= Len(t) THEN <<>>
    ELSE (IF i \in keep THEN <<t[i]>> ELSE <<>>) \o reconstructSkipsLast(t, keep, i + 1)

\* a mutation of reconstruct: the kept instructions come out last first
RECURSIVE reconstructReversed(_, _, _)
reconstructReversed(t, keep, i) ==
    IF i > Len(t) THEN <<>>
    ELSE reconstructReversed(t, keep, i + 1) \o (IF i \in keep THEN <<t[i]>> ELSE <<>>)

\* "reconstruct new tac vector": the kept instructions from index i on
RECURSIVE reconstruct(_, _, _)
reconstruct(t, keep, i) ==
    IF i > Len(t) THEN <<>>
    ELSE (IF i \in keep THEN <<t[i]>> ELSE <<>>) \o reconstruct(t, keep, i + 1)

eliminate(t, sc) == reconstruct(t, backward(t, Len(t), seedLive(t, sc)), 1)

----------------------------------------------------------------------------
(* The run: SymbolTable and ErrorHandler constructed, a Lexer given the    *)
(* source, a TACGenerator constructed on it, generate(), then eliminate(). *)

ResetLocals ==
    /\ lhs' = EmptyStr /\ lhsLine' = 0
    /\ eHas' = FALSE /\ eLeft' = EmptyStr /\ eOp' = "NOP"
    /\ tHas' = FALSE /\ tLeft' = EmptyStr /\ tOp' = "NOP"
    /\ fres' = EmptyStr

stmtLocals == <<lhs, lhsLine>>
exprLocals == <<eHas, eLeft, eOp>>
termLocals == <<tHas, tLeft, tOp>>

\* TACGenerator::TACGenerator: tempCounter(0), cur = lexer->getNextToken()
Construct ==
    /\ pc = "new"
    /\ LET g == nextToken([Gen EXCEPT !.tempCounter = 0])
       IN  SetGen(g) /\ Goto(g, "program")
    /\ UNCHANGED <<src, symtab, stmtLocals, exprLocals, termLocals, fres, genRet,
                   dceVars, apiVars>>

\* the loop test of parseProgram
ParseProgram ==
    /\ pc = "program"
    /\ IF cur.kind # "END_OF_FILE"
       THEN pc' = "stmt" /\ genRet' = genRet
       ELSE pc' = "done" /\ genRet' = "true"
    /\ UNCHANGED <<symVars, errVars, procVars, lexVars, cur, tempCounter, freeTemps, tac,
                   stmtLocals, exprLocals, termLocals, fres, dceVars, apiVars>>

\* parseStatement up to the identifier
StmtIdent ==
    /\ pc = "stmt"
    /\ IF cur.kind # "IDENT"
       THEN LET g == syntaxError(Gen, "Expected identifier at start of statement")
            IN  SetGen(g) /\ Goto(g, "recover") /\ UNCHANGED stmtLocals
       ELSE LET g == nextToken(Gen)
            IN  SetGen(g) /\ Goto(g, "assign") /\ lhs' = cur.lexeme /\ lhsLine' = cur.line
    /\ UNCHANGED <<src, symtab, exprLocals, termLocals, fres, genRet, dceVars, apiVars>>

\* parseStatement: the '=' and the call of parseExpression
StmtAssign ==
    /\ pc = "assign"
    /\ IF cur.kind # "ASSIGN"
       THEN LET g == syntaxError(Gen, "Expected '=' after identifier")
            IN  SetGen(g) /\ Goto(g, "recover")
       ELSE LET g == nextToken(Gen)
            IN  SetGen(g) /\ Goto(g, "factor")
    /\ UNCHANGED <<src, symtab, stmtLocals, exprLocals, termLocals, fres, genRet,
                   dceVars, apiVars>>

\* parseFactor; on failure the reports of the callers up to parseStatement
ParseFactor ==
    /\ pc = "factor"
    /\ IF cur.kind = "IDENT"
       THEN LET g == nextToken([Gen EXCEPT !.w = markUsed(@, cur.lexeme, "segv")])
            IN  SetGen(g) /\ Goto(g, "term") /\ fres' = cur.lexeme
       ELSE IF cur.kind = "FLOAT_LIT"
       THEN LET n == newTemp(Gen)
                g == nextToken(emitLoadConst(n.g, n.t, cur.lexeme))
            IN  SetGen(g) /\ Goto(g, "term") /\ fres' = n.t
       ELSE LET g1 == syntaxError(Gen, "Expected identifier or float literal")
                g2 == IF tHas THEN syntaxError(g1, "Missing factor after operator") ELSE g1
                g3 == IF eHas THEN syntaxError(g2, "Missing term after operator") ELSE g2
                g  == syntaxError(g3, "Invalid expression in assignment")
            IN  SetGen(g) /\ Goto(g, "recover") /\ fres' = fres
    /\ UNCHANGED <<src, symtab, stmtLocals, exprLocals, termLocals, genRet, dceVars, apiVars>>

\* parseTerm after a factor: fold it into left, then the loop test
ParseTerm ==
    /\ pc = "term"
    /\ LET f == IF tHas THEN fold(Gen, OpOf(tOp), tLeft, fres)
                ELSE [g |-> Gen, t |-> fres]
       IN  IF cur.kind \in {"STAR", "SLASH"}
           THEN LET g == nextToken(f.g)
                IN  /\ SetGen(g) /\ Goto(g, "factor")
                    /\ tHas' = TRUE /\ tLeft' = f.t /\ tOp' = cur.kind
           ELSE /\ SetGen(f.g) /\ Goto(f.g, "expr")
                /\ tHas' = FALSE /\ tLeft' = f.t /\ tOp' = "NOP"
    /\ fres' = EmptyStr
    /\ UNCHANGED <<src, symtab, stmtLocals, exprLocals, genRet, dceVars, apiVars>>

\* parseExpression after a term: fold it into left, then the loop test
ParseExpression ==
    /\ pc = "expr"
    /\ LET f == IF eHas THEN fold(Gen, OpOf(eOp), eLeft, tLeft)
                ELSE [g |-> Gen, t |-> tLeft]
       IN  IF cur.kind \in {"PLUS", "MINUS"}
           THEN LET g == nextToken(f.g)
                IN  /\ SetGen(g) /\ Goto(g, "factor")
                    /\ eHas' = TRUE /\ eLeft' = f.t /\ eOp' = cur.kind
           ELSE /\ SetGen(f.g) /\ Goto(f.g, "semi")
                /\ eHas' = FALSE /\ eLeft' = f.t /\ eOp' = "NOP"
    /\ tHas' = FALSE /\ tLeft' = EmptyStr /\ tOp' = "NOP"
    /\ UNCHANGED <<src, symtab, stmtLocals, fres, genRet, dceVars, apiVars>>

\* parseStatement from "expect semicolon" to its return
StmtSemi ==
    /\ pc = "semi"
    /\ IF cur.kind # "SEMICOLON"
       THEN LET g == syntaxError(Gen, "Missing semicolon at end of statement")
            IN  SetGen(g) /\ Goto(g, "recover")
       ELSE LET g1 == nextToken(Gen)
                g2 == [g1 EXCEPT !.w = declare(@, lhs, lhsLine)]
                g3 == emitAssign(g2, lhs, eLeft)
                g  == [g3 EXCEPT !.w = markUsed(@, lhs, "segv")]
            IN  SetGen(g) /\ Goto(g, "program")
    /\ ResetLocals
    /\ UNCHANGED <<src, symtab, genRet, dceVars, apiVars>>

\* parseProgram when parseStatement returned false: the report
Recover ==
    /\ pc = "recover"
    /\ LET g == syntaxError(Gen, "Skipping to next ';' on parse error")
       IN  SetGen(g) /\ Goto(g, "skip")
    /\ ResetLocals
    /\ UNCHANGED <<src, symtab, genRet, dceVars, apiVars>>

\* a mutation of Skip: the ';' that ends the skipping is left in the lookahead
SkipKeepsSemicolon ==
    /\ pc = "skip"
    /\ IF cur.kind \notin {"SEMICOLON", "END_OF_FILE"}
       THEN LET g == nextToken(Gen) IN SetGen(g) /\ Goto(g, "skip")
       ELSE SetGen(Gen) /\ Goto(Gen, "program")
    /\ UNCHANGED <<src, symtab, stmtLocals, exprLocals, termLocals, fres, genRet,
                   dceVars, apiVars>>

\* parseProgram: one turn of the skipping loop, or the step over the ';'
Skip ==
    /\ pc = "skip"
    /\ IF cur.kind \notin {"SEMICOLON", "END_OF_FILE"}
       THEN LET g == nextToken(Gen) IN SetGen(g) /\ Goto(g, "skip")
       ELSE IF cur.kind = "SEMICOLON"
       THEN LET g == nextToken(Gen) IN SetGen(g) /\ Goto(g, "program")
       ELSE SetGen(Gen) /\ Goto(Gen, "program")
    /\ UNCHANGED <<src, symtab, stmtLocals, exprLocals, termLocals, fres, genRet,
                   dceVars, apiVars>>

\* main, step 6: DeadCodeEliminator::eliminate(tac, sym), in place
Eliminate ==
    /\ pc = "done"
    /\ dceIn' = tac
    /\ dceOut' = eliminate(tac, scopes)
    /\ tac' = eliminate(tac, scopes)
    /\ pc' = "eliminated"
    /\ UNCHANGED <<symVars, errVars, procVars, lexVars, cur, tempCounter, freeTemps,
                   stmtLocals, exprLocals, termLocals, fres, genRet, dceOut2, apiVars>>

----------------------------------------------------------------------------
(* Sources *)

nx == <<"x">>
ny == <<"y">>
nz == <<"z">>
nt0 == <<"t", "0">>

Id(n) == Lexeme("IDENT", n)
Num(l) == Lexeme("FLOAT_LIT", l)
Plus == Lexeme("PLUS", <<"+">>)
Minus == Lexeme("MINUS", <<"-">>)
Star == Lexeme("STAR", <<"*">>)
Slash == Lexeme("SLASH", <<"/">>)
Eq == Lexeme("ASSIGN", <<"=">>)
Semi == Lexeme("SEMICOLON", <<";">>)
At == Lexeme("UNKNOWN", <<"@">>)

Lit10 == <<"1", ".", "0">>
Lit15 == <<"1", ".", "5">>
Lit20 == <<"2", ".", "0">>

\* every sequence of at most n lexemes of the alphabet A
RECURSIVE Streams(_, _)
Streams(A, n) ==
    IF n = 0 THEN {<<>>}
    ELSE LET shorter == Streams(A, n - 1)
         IN  shorter \cup {Append(p, a) : p \in {q \in shorter : Len(q) = n - 1}, a \in A}

RawAlphabet == {Id(nx), Id(nt0), Num(Lit20), Plus, Star, Eq, Semi, At}

RawSources == Streams(RawAlphabet, MaxRaw)

\* the grammar: stmt := IDENT '=' expr ';' with at most MaxOperands operands
Identifiers == {nx, ny, nt0}
Operands == {Id(n) : n \in Identifiers} \cup {Num(Lit20)}
Operators == {Plus, Minus, Star, Slash}

RECURSIVE Exprs(_)
Exprs(k) ==
    IF k = 1 THEN {<<o>> : o \in Operands}
    ELSE {e \o <<op, o>> : e \in Exprs(k - 1), op \in Operators, o \in Operands}

\* the statements of k operands (2 * k + 2 lexemes)
Statements(k) ==
    {<<Id(l), Eq>> \o e \o <<Semi>> : l \in Identifiers, e \in Exprs(k)}

\* the grammatical sources of at most n lexemes whose first statement, if any,
\* has at most k operands
RECURSIVE Grammatical(_)
RECURSIVE StartingWith(_, _)
StartingWith(k, n) ==
    IF k = 0 THEN {<<>>}
    ELSE IF 2 * k + 2 > n THEN StartingWith(k - 1, n)
    ELSE StartingWith(k - 1, n)
         \cup {s \o p : s \in Statements(k), p \in Grammatical(n - (2 * k + 2))}

\* the grammatical sources of at most n lexemes
Grammatical(n) == StartingWith(MaxOperands, n)

\* the sources the properties name
SrcSum == <<Id(nx), Eq, Num(Lit15), Plus, Num(Lit20), Semi>>
SrcSumRead == SrcSum \o <<Id(ny), Eq, Id(nx), Semi>>
SrcUndeclared == <<Id(ny), Eq, Id(nz), Semi>>
SrcReassign == <<Id(nx), Eq, Num(Lit10), Semi, Id(nx), Eq, Num(Lit20), Semi>>

NamedSources == {SrcSum, SrcSumRead, SrcUndeclared, SrcReassign}

Sources == NamedSources \cup RawSources \cup Grammatical(MaxProgTokens)

----------------------------------------------------------------------------
(* Specification of the run *)

NoCall == [op |-> "none", name |-> EmptyStr, ret |-> FALSE]

InitTable ==
    /\ scopes = <<EmptyFrame>>
    /\ nextMemoryIndex = 0
    /\ errors = <<>>
    /\ stopOnFatal = TRUE
    /\ cerr = <<>>
    /\ fault = "none"

InitGenerator ==
    /\ idx = 1
    /\ cur = NoToken
    /\ tempCounter = 0
    /\ freeTemps = <<>>
    /\ tac = <<>>
    /\ lhs = EmptyStr /\ lhsLine = 0
    /\ eHas = FALSE /\ eLeft = EmptyStr /\ eOp = "NOP"
    /\ tHas = FALSE /\ tLeft = EmptyStr /\ tOp = "NOP"
    /\ fres = EmptyStr
    /\ genRet = "pending"

InitDce == dceIn = <<>> /\ dceOut = <<>> /\ dceOut2 = <<>>

InitApi == lastCall = NoCall /\ calls = 0

Init ==
    /\ InitTable
    /\ errHandler = TRUE
    /\ src \in Sources
    /\ symtab \in BOOLEAN
    /\ InitGenerator
    /\ pc = "new"
    /\ InitDce
    /\ InitApi

Next ==
    \/ Construct
    \/ ParseProgram
    \/ StmtIdent
    \/ StmtAssign
    \/ ParseFactor
    \/ ParseTerm
    \/ ParseExpression
    \/ StmtSemi
    \/ Recover
    \/ Skip
    \/ Eliminate

Spec == Init /\ [][Next]_vars

\* the same run on a table whose client has called beginScope() once before
\* the generator is constructed: generation happens at scope depth 1
InitNested ==
    /\ scopes = beginScope([scopes |-> <<EmptyFrame>>]).scopes
    /\ nextMemoryIndex = 0
    /\ errors = <<>>
    /\ stopOnFatal = TRUE
    /\ cerr = <<>>
    /\ fault = "none"
    /\ errHandler = TRUE
    /\ src \in NamedSources \cup RawSources
    /\ symtab \in BOOLEAN
    /\ InitGenerator
    /\ pc = "new"
    /\ InitDce
    /\ InitApi

SpecNested == InitNested /\ [][Next]_vars

\* the run on damaged sources: a well-formed statement with arbitrary lexemes
\* before and after it, and the source `a = 1 b = 2; c = 3;`
na == <<"a">>
nb == <<"b">>
nc == <<"c">>

Lit1 == <<"1">>
Lit2 == <<"2">>
Lit3 == <<"3">>

SrcRecover ==
    <<Id(na), Eq, Num(Lit1), Id(nb), Eq, Num(Lit2), Semi, Id(nc), Eq, Num(Lit3), Semi>>

JunkAlphabet == {Id(nx), Num(Lit20), Plus, Eq, Semi}

DamagedSources ==
    {r1 \o <<Id(ny), Eq, o, Semi>> \o r2 :
        r1 \in Streams(JunkAlphabet, MaxJunk), o \in {Id(nx), Num(Lit20)},
        r2 \in Streams(JunkAlphabet, MaxJunk)}

InitRecovery ==
    /\ InitTable
    /\ errHandler = TRUE
    /\ src \in {SrcRecover} \cup DamagedSources
    /\ symtab \in BOOLEAN
    /\ InitGenerator
    /\ pc = "new"
    /\ InitDce
    /\ InitApi

SpecRecovery == InitRecovery /\ [][Next]_vars

----------------------------------------------------------------------------
(* A client of the SymbolTable API: any sequence of at most MaxCalls calls *)
(* on a table constructed with or without an ErrorHandler.                 *)

ApiNames == {nx, ny}
ApiLine == 5

\* an address the client has chosen itself (a register)
ApiAddr == <<"r", "1">>

ApiEntries ==
    {[SymbolEntry(n, k.kind, "int", 0, ApiLine) EXCEPT !.is_state = k.is_state] :
        n \in ApiNames,
        k \in {[kind |-> "variable", is_state |-> FALSE],
               [kind |-> "variable", is_state |-> TRUE],
               [kind |-> "builtin", is_state |-> FALSE]}}
    \cup {[SymbolEntry(n, "variable", "int", 0, ApiLine) EXCEPT !.memoryAddr = ApiAddr] :
             n \in ApiNames}

\* the updaters a client passes to updateEntry
setTypeFloat == [type |-> "float"]
setValue42 == [value |-> <<"4", "2">>]

CanCall == pc = "api" /\ calls < MaxCalls /\ fault = "none"

Called(op, name, ret) ==
    /\ lastCall' = [op |-> op, name |-> name, ret |-> ret]
    /\ calls' = calls + 1
    /\ UNCHANGED <<lexVars, genVars, dceVars>>

BeginScope ==
    /\ CanCall
    /\ Len(scopes) <= MaxDepth
    /\ SetWorld(beginScope(World))
    /\ Called("beginScope", EmptyStr, TRUE)

EndScope ==
    /\ CanCall
    /\ SetWorld(endScope(World))
    /\ Called("endScope", EmptyStr, TRUE)

Insert ==
    /\ CanCall
    /\ \E e \in ApiEntries :
          LET r == insert(World, e)
          IN  SetWorld(r.w) /\ Called("insert", e.name, r.ret)

InsertTokenPlaceholder ==
    /\ CanCall
    /\ \E n \in ApiNames :
          LET r == insertTokenPlaceholder(World, n, ApiLine)
          IN  SetWorld(r.w) /\ Called("insertTokenPlaceholder", n, r.ret)

MarkUsed ==
    /\ CanCall
    /\ \E n \in ApiNames, ub \in {"segv", "skip"} :
          SetWorld(markUsed(World, n, ub)) /\ Called("markUsed", n, TRUE)

UpdateEntry ==
    /\ CanCall
    /\ \E n \in ApiNames :
          \/ LET r == updateEntry(World, n, setTypeFloat)
             IN  SetWorld(r.w) /\ Called("updateEntry", n, r.ret)
          \/ LET r == updateEntry(World, n, setValue42)
             IN  SetWorld(r.w) /\ Called("updateEntry", n, r.ret)

Clear ==
    /\ CanCall
    /\ SetWorld(clear(World))
    /\ Called("clear", EmptyStr, TRUE)

\* getUnusedEntries is const: the call hands back a vector and leaves the
\* table as it is
GetUnusedEntries ==
    /\ CanCall
    /\ SetWorld(World)
    /\ Called("getUnusedEntries", EmptyStr, getUnusedEntries(scopes))

InitSym ==
    /\ InitTable
    /\ errHandler \in BOOLEAN
    /\ src = <<>>
    /\ symtab = FALSE
    /\ InitGenerator
    /\ pc = "api"
    /\ InitDce
    /\ InitApi

NextSym ==
    \/ BeginScope
    \/ EndScope
    \/ Insert
    \/ InsertTokenPlaceholder
    \/ MarkUsed
    \/ UpdateEntry
    \/ GetUnusedEntries
    \/ Clear

SpecSym == InitSym /\ [][NextSym]_vars

----------------------------------------------------------------------------
(* eliminate on arbitrary instruction sequences and symbol table snapshots *)

DceNames == {nx, ny, nt0}

\* binary instructions read two different names
DceInsts ==
    {TacInst}
    \cup {LoadConst(d, Lit20) : d \in DceNames}
    \cup {Assign(d, a) : d \in DceNames, a \in DceNames}
    \cup {Binary("ADD", d, p[1], p[2]) : d \in DceNames, p \in {<<nx, ny>>, <<ny, nt0>>}}

Entry(n, level, used) ==
    [SymbolEntry(n, "variable", "float", level, 1) EXCEPT !.is_used = used]

\* x in the global frame and y in a pushed frame, each used or not; t0 is a
\* name of the source in some snapshots (declared in the global frame, used)
Snapshots ==
    {<<(nx :> Entry(nx, 0, ux)), (ny :> Entry(ny, 1, uy))>> :
        ux \in BOOLEAN, uy \in BOOLEAN}
    \cup {<<(nx :> Entry(nx, 0, ux)) @@ (nt0 :> Entry(nt0, 0, TRUE)),
            (ny :> Entry(ny, 1, TRUE))>> : ux \in BOOLEAN}

DceRun ==
    /\ pc = "dce"
    /\ dceOut' = eliminate(dceIn, scopes)
    /\ pc' = "once"
    /\ UNCHANGED <<symVars, errVars, procVars, lexVars, cur, tempCounter, freeTemps, tac,
                   stmtLocals, exprLocals, termLocals, fres, genRet, dceIn, dceOut2,
                   apiVars>>

DceRerun ==
    /\ pc = "once"
    /\ dceOut2' = eliminate(dceOut, scopes)
    /\ pc' = "twice"
    /\ UNCHANGED <<symVars, errVars, procVars, lexVars, cur, tempCounter, freeTemps, tac,
                   stmtLocals, exprLocals, termLocals, fres, genRet, dceIn, dceOut,
                   apiVars>>

InitDCE ==
    /\ scopes \in Snapshots
    /\ nextMemoryIndex = 0
    /\ errHandler = TRUE
    /\ errors = <<>>
    /\ stopOnFatal = TRUE
    /\ cerr = <<>>
    /\ fault = "none"
    /\ src = <<>>
    /\ symtab = FALSE
    /\ InitGenerator
    /\ pc = "dce"
    /\ dceIn \in Streams(DceInsts, MaxInsts)
    /\ dceOut = <<>>
    /\ dceOut2 = <<>>
    /\ InitApi

NextDCE == DceRun \/ DceRerun

SpecDCE == InitDCE /\ [][NextDCE]_vars

----------------------------------------------------------------------------
(* A client of the ErrorHandler: at most MaxReports calls on one handler,  *)
(* constructed with stopOnFatal set.                                       *)

Severities == {"INFO", "WARNING", "ERROR", "FATAL"}

\* what the client passes: phase, message, line and column (-1, -1 being the
\* defaults)
ErrArgs ==
    {[phase |-> "SEMANTIC", message |-> <<"E1">>, line |-> -1, column |-> -1],
     [phase |-> "RUNTIME", message |-> <<"Segmentation fault.">>, line |-> 42,
      column |-> 15]}

CanReport == pc = "err" /\ calls < MaxReports /\ fault = "none"

Reported(op, args, ret) ==
    /\ lastCall' = [op |-> op, args |-> args, ret |-> ret]
    /\ calls' = calls + 1
    /\ UNCHANGED <<lexVars, genVars, dceVars>>

SetStopOnFatal ==
    /\ CanReport
    /\ \E v \in BOOLEAN :
          SetWorld(setStopOnFatal(World, v)) /\ Reported("setStopOnFatal", v, TRUE)

Report ==
    /\ CanReport
    /\ \E a \in ErrArgs, s \in Severities, r \in BOOLEAN :
          LET w == report(World, a.phase, s, a.message, a.line, a.column, r)
          IN  /\ SetWorld(w)
              /\ Reported("report", a @@ [severity |-> s, recoverable |-> r],
                          w.fault = "none")

ReportError ==
    /\ CanReport
    /\ \E a \in ErrArgs, r \in BOOLEAN :
          LET w == reportError(World, a.phase, a.message, a.line, a.column, r)
          IN  SetWorld(w) /\ Reported("reportError", a @@ [recoverable |-> r],
                                         w.fault = "none")

ReportWarning ==
    /\ CanReport
    /\ \E a \in ErrArgs :
          LET w == reportWarning(World, a.phase, a.message, a.line, a.column)
          IN  SetWorld(w) /\ Reported("reportWarning", a, w.fault = "none")

ReportInfo ==
    /\ CanReport
    /\ \E a \in ErrArgs :
          LET w == reportInfo(World, a.phase, a.message, a.line, a.column)
          IN  SetWorld(w) /\ Reported("reportInfo", a, w.fault = "none")

ReportFatal ==
    /\ CanReport
    /\ \E a \in ErrArgs :
          LET w == reportFatal(World, a.phase, a.message, a.line, a.column)
          IN  SetWorld(w) /\ Reported("reportFatal", a, w.fault = "none")

ClearErrors ==
    /\ CanReport
    /\ SetWorld(clearErrors(World))
    /\ Reported("clear", <<>>, TRUE)

InitErr ==
    /\ InitTable
    /\ errHandler = TRUE
    /\ src = <<>>
    /\ symtab = FALSE
    /\ InitGenerator
    /\ pc = "err"
    /\ InitDce
    /\ InitApi

NextErr ==
    \/ SetStopOnFatal
    \/ Report
    \/ ReportError
    \/ ReportWarning
    \/ ReportInfo
    \/ ReportFatal
    \/ ClearErrors

SpecErr == InitErr /\ [][NextErr]_vars

----------------------------------------------------------------------------
(* Properties of the run *)

t0 == <<"t", "0">>
t1 == <<"t", "1">>
t2 == <<"t", "2">>

SumCode ==
    <<LoadConst(t0, Lit15), LoadConst(t1, Lit20), Binary("ADD", t2, t0, t1),
      Assign(nx, t2)>>

\* C1: on a fresh generator the source `x = 1.5 + 2.0;` generates exactly
\* LoadConstant(t0,"1.5"), LoadConstant(t1,"2.0"), Add(t2,t0,t1), Assign(x,t2),
\* the three temporaries being minted in that order (the counter ends at 3).
C1_SumGeneratesFour ==
    (src = SrcSum /\ pc = "done") => (tac = SumCode /\ tempCounter = 3)

C1_Witness == src = SrcSum /\ pc = "done" /\ Len(tac) = 4

\* C2 as claimed: after generate and eliminate on `x = 1.5 + 2.0;`, all four
\* instructions are dropped when no later statement reads x, and all four
\* survive when a later statement (`y = x;`) reads x.
C2_UnreadIsDropped ==
    /\ (src = SrcSum /\ pc = "eliminated") => dceOut = <<>>
    /\ (src = SrcSumRead /\ pc = "eliminated") => SubSeq(dceOut, 1, 4) = SumCode

\* C2 as amended: after generate and eliminate with the final symbol table, the
\* four instructions of `x = 1.5 + 2.0;` survive whether or not a later
\* statement reads x, because generate marks the assigned name used; they are
\* all dropped only under a symbol table that reports x unused.
C2_AssignedIsKept ==
    /\ (src = SrcSum /\ pc = "eliminated") =>
          /\ dceOut = SumCode
          /\ eliminate(dceIn, [scopes EXCEPT ![1][nx].is_used = FALSE]) = <<>>
    /\ (src = SrcSumRead /\ pc = "eliminated") =>
          /\ SubSeq(dceOut, 1, 4) = SumCode
          /\ dceOut = dceIn

C2_Witness == src = SrcSum /\ pc = "eliminated" /\ Len(dceOut) = 4 /\ scopes[1][nx].is_used

\* the positions of the left-hand sides of a source without syntax errors
LhsPositions(s) ==
    {i \in 1..Len(s) : s[i].kind = "IDENT" /\ (i = 1 \/ s[i - 1].kind = "SEMICOLON")}

NoSyntaxError == \A k \in 1..Len(errors) : errors[k].phase = "SEMANTIC"

\* n is read by the source and assigned nowhere in it
ReadsUnbound(s, n) ==
    /\ \E i \in 1..Len(s) : s[i] = Id(n) /\ i \notin LhsPositions(s)
    /\ \A i \in LhsPositions(s) : s[i].lexeme # n

Undeclared(n) == {k \in 1..Len(errors) : errors[k].message = UndeclMessage(n)}

SourceNames == {nx, ny, nz, nt0}

\* C3: a grammatical source that reads a name z it never binds makes the run
\* report exactly one UndeclaredIdentifier for z, and the final table holds an
\* entry for z with is_dummy and is_used set.
C3_OneUndeclared ==
    (pc = "done" /\ NoSyntaxError) =>
        \A z \in SourceNames :
            ReadsUnbound(src, z) =>
                /\ Cardinality(Undeclared(z)) = 1
                /\ lookup(scopes, z) # 0
                /\ scopes[lookup(scopes, z)][z].is_dummy
                /\ scopes[lookup(scopes, z)][z].is_used

IsDuplicate(m) == Len(m) > 0 /\ m[1] = "Duplicate declaration of"

AssignsTo(n) == {k \in 1..Len(tac) : tac[k].op = "ASSIGN" /\ tac[k].dest = n}

FramesHolding(n) == {i \in 1..Len(scopes) : n \in DOMAIN scopes[i]}

\* C4: assigning one name in two or more statements never reports a
\* DuplicateDeclaration; once two statements assigning the name have been
\* completed exactly one entry of that name exists, and it is the concrete
\* float variable declared (or promoted) by the first of them.
C4_ReassignIsNotRedeclare ==
    /\ \A k \in 1..Len(errors) : ~IsDuplicate(errors[k].message)
    /\ cerr = <<>>
    /\ \A n \in SourceNames :
          (pc \in {"program", "done"} /\ Cardinality(AssignsTo(n)) >= 2) =>
              /\ Cardinality(FramesHolding(n)) = 1
              /\ LET e == scopes[lookup(scopes, n)][n]
                 IN  /\ ~e.is_dummy /\ e.is_used
                     /\ e.kind = "variable" /\ e.type = "float"
                     /\ NoSyntaxError =>
                           \E i \in LhsPositions(src) :
                               /\ src[i].lexeme = n
                               /\ \A j \in LhsPositions(src) : src[j].lexeme = n => i <= j
                               /\ e.decl_line = LineAt(src, i)

C4_Witness ==
    /\ src = SrcReassign /\ pc = "done"
    /\ Cardinality(AssignsTo(nx)) = 2
    /\ scopes[1][nx].decl_line = 1

\* the rank of a control point of generate(): it falls along every step that
\* consumes no lexeme
Rank ==
    IF pc = "new" THEN 13
    ELSE IF pc = "program" THEN (IF cur.kind = "END_OF_FILE" THEN 3 ELSE 12)
    ELSE IF pc = "stmt" THEN 11
    ELSE IF pc = "assign" THEN 10
    ELSE IF pc = "factor" THEN 9
    ELSE IF pc = "term" THEN 8
    ELSE IF pc = "expr" THEN 7
    ELSE IF pc = "semi" THEN 6
    ELSE IF pc = "recover" THEN 5
    ELSE IF pc = "skip" THEN 4
    ELSE IF pc = "done" THEN 2
    ELSE 1

\* what is left to do: the lexemes not yet read, the lookahead not yet at the
\* end marker, the rank of the control point
Variant ==
    32 * (Len(src) + 1 - idx) + (IF cur.kind = "END_OF_FILE" THEN 0 ELSE 16) + Rank

\* C8: whatever the stream of lexemes, generate never throws and never
\* returns false, every diagnostic recorded is a recoverable ERROR, and when
\* generate returns it returns true with the stream consumed up to the end
\* marker; it does return: until then it stands at a control point that has a
\* next step, and every step lowers a variant that stays positive.
C8_GenerateCompletes ==
    /\ [](/\ fault = "none" /\ pc # "threw" /\ genRet # "false"
          /\ \A k \in 1..Len(errors) :
                errors[k].severity = "ERROR" /\ errors[k].recoverable
          /\ pc = "done" =>
                genRet = "true" /\ cur.kind = "END_OF_FILE" /\ idx = Len(src) + 1
          /\ Variant > 0
          /\ pc \notin {"done", "eliminated"} =>
                /\ genRet = "pending"
                /\ pc \in {"new", "program", "stmt", "assign", "factor", "term",
                           "expr", "semi", "recover", "skip"})
    /\ [][Variant' < Variant]_vars

C8_Witness ==
    /\ pc = "done" /\ genRet = "true" /\ stopOnFatal
    /\ \E k \in 1..Len(errors) : errors[k].phase = "LEXICAL"
    /\ \E k \in 1..Len(errors) : errors[k].phase = "SYNTAX"
    /\ src[Len(src)].kind # "SEMICOLON"

----------------------------------------------------------------------------
(* Properties of the SymbolTable API *)

\* the step is a call of op
Stepped(op) == lastCall'.op = op /\ calls' = calls + 1

\* the frames below the innermost one that bind n
OuterFrames(n) == {i \in 1..(Len(scopes) - 1) : n \in DOMAIN scopes[i]}

Innermost(F) == CHOOSE i \in F : \A j \in F : j <= i

\* C5: when n is bound in a frame below the innermost one and not in the
\* innermost one, lookupLocal(n) finds nothing and insert of an entry named n
\* succeeds without diagnostic and leaves the outer frames alone; afterwards
\* lookupLocal(n) and lookup(n) both give the new entry of the innermost
\* frame; endScope() then makes lookup(n) give the unchanged outer entry again.
C5_Shadowing ==
    [][\A n \in ApiNames :
          LET top == Len(scopes)
          IN  /\ (OuterFrames(n) # {} /\ n \notin DOMAIN scopes[top]) =>
                    /\ lookupLocal(scopes, n) = 0
                    /\ lookup(scopes, n) = Innermost(OuterFrames(n))
              /\ (Stepped("insert") /\ lastCall'.name = n /\ OuterFrames(n) # {}
                    /\ n \notin DOMAIN scopes[top]) =>
                    /\ lastCall'.ret
                    /\ errors' = errors /\ cerr' = cerr
                    /\ lookupLocal(scopes', n) = top
                    /\ lookup(scopes', n) = top
                    /\ scopes'[top][n].scopeLevel = top - 1
                    /\ \A i \in 1..(top - 1) : scopes'[i] = scopes[i]
              /\ (Stepped("endScope") /\ OuterFrames(n) # {} /\ n \in DOMAIN scopes[top]) =>
                    /\ lookup(scopes, n) = top
                    /\ lookup(scopes', n) = Innermost(OuterFrames(n))
                    /\ scopes'[Innermost(OuterFrames(n))][n]
                          = scopes[Innermost(OuterFrames(n))][n]]_vars

C5_Witness ==
    /\ lastCall.op = "insert" /\ lastCall.name = nx /\ lastCall.ret
    /\ Len(scopes) = 2
    /\ nx \in DOMAIN scopes[1] /\ nx \in DOMAIN scopes[2]
    /\ scopes[2][nx].scopeLevel = 1 /\ scopes[1][nx].scopeLevel = 0

\* C9: the global frame is permanent: the scope stack always holds frame 0
\* (currentScope() >= 0), endScope never destroys frame 0 or its entries, and
\* endScope with only the global frame left changes nothing.
C9_GlobalFramePermanent ==
    [][/\ Len(scopes') - 1 >= 0
       /\ (Stepped("endScope") /\ Len(scopes) >= 1) =>
              /\ Len(scopes') >= 1
              /\ scopes'[1] = scopes[1]
              /\ Len(scopes) = 1 => scopes' = scopes]_vars

\* the step records one DuplicateDeclaration (on stderr without a handler)
ReportsDuplicate ==
    IF errHandler
    THEN /\ Len(errors') = Len(errors) + 1
         /\ IsDuplicate(errors'[Len(errors')].message)
         /\ cerr' = cerr
    ELSE /\ Len(cerr') = Len(cerr) + 1
         /\ IsDuplicate(cerr'[Len(cerr')])
         /\ errors' = errors

\* C10: insert returns false and reports one DuplicateDeclaration exactly when
\* the name is already bound in the innermost frame, and then leaves the
\* table and the address counter as they were; in every other case it returns
\* true, reports nothing, and lookup finds the new entry.
C10_InsertFailsIffDuplicate ==
    [][Stepped("insert") =>
          LET n   == lastCall'.name
              dup == Len(scopes) >= 1 /\ n \in DOMAIN scopes[Len(scopes)]
          IN  /\ (~lastCall'.ret /\ ReportsDuplicate) <=> dup
              /\ dup => scopes' = scopes /\ nextMemoryIndex' = nextMemoryIndex
              /\ ~dup => /\ lastCall'.ret
                         /\ errors' = errors /\ cerr' = cerr
                         /\ lookup(scopes', n) # 0]_vars

----------------------------------------------------------------------------
(* Properties of eliminate *)

RECURSIVE IsSubsequence(_, _)
IsSubsequence(a, b) ==
    IF a = <<>> THEN TRUE
    ELSE IF b = <<>> THEN FALSE
    ELSE IF Head(a) = Head(b) THEN IsSubsequence(Tail(a), Tail(b))
    ELSE IsSubsequence(a, Tail(b))

\* C6: running eliminate on its own output with the same symbol table
\* snapshot gives that output again, instruction for instruction.
C6_Idempotent == pc = "twice" => dceOut2 = dceOut

C6_Witness ==
    /\ pc = "twice"
    /\ Len(dceOut) = 2 /\ Len(dceIn) = 3
    /\ dceOut2 = dceOut

\* C7: the output of eliminate is a subsequence of its input: unmodified input
\* instructions in their original relative order, none added or duplicated,
\* hence no more of them than in the input.
C7_Subsequence ==
    pc \in {"once", "twice"} =>
        /\ IsSubsequence(dceOut, dceIn)
        /\ Len(dceOut) <= Len(dceIn)

C7_Witness ==
    /\ pc = "once"
    /\ Len(dceIn) = 3 /\ Len(dceOut) = 2
    /\ dceOut[1] # dceOut[2]
    /\ dceOut = <<dceIn[1], dceIn[3]>>

----------------------------------------------------------------------------
(* Properties of markUsed *)

\* C11: markUsed(n) of a name bound in no frame, at any depth, reports one
\* UndeclaredIdentifier and leaves a used dummy variable/unknown entry for n
\* in frame 0 and not in the current frame; the entry survives the endScope
\* of the nested scopes; markUsed(n) of a bound name sets is_used on the
\* innermost binding only and reports nothing.
C11_MarkUsedRepairsGlobally ==
    [][/\ Stepped("markUsed") =>
              LET n == lastCall'.name
                  f == lookup(scopes, n)
              IN  IF f = 0
                  THEN /\ fault' = "none"
                       /\ Len(errors') = Len(errors) + 1
                       /\ errors'[Len(errors')].message = UndeclMessage(n)
                       /\ Len(scopes') = Len(scopes)
                       /\ Len(scopes') >= 1
                       /\ n \in DOMAIN scopes'[1]
                       /\ scopes'[1][n].is_dummy /\ scopes'[1][n].is_used
                       /\ scopes'[1][n].kind = "variable"
                       /\ scopes'[1][n].type = "unknown"
                       /\ scopes'[1][n].scopeLevel = 0
                       /\ \A i \in 2..Len(scopes) : scopes'[i] = scopes[i]
                       /\ lookup(scopes', n) = 1
                  ELSE /\ fault' = "none" /\ errors' = errors /\ cerr' = cerr
                       /\ scopes' = [scopes EXCEPT ![f][n].is_used = TRUE]
       /\ (Stepped("endScope") /\ Len(scopes) >= 2) => scopes'[1] = scopes[1]]_vars

\* C12: a table constructed without an ErrorHandler stays usable on every
\* diagnostic path: a duplicate insert prints and returns false, markUsed of
\* an undeclared name prints, does not fail, and leaves an entry that lookup
\* finds with is_dummy set.
C12_UsableWithoutHandler ==
    [][(~errHandler /\ calls' = calls + 1) =>
          LET n == lastCall'.name
          IN  /\ fault' = "none"
              /\ (Stepped("insert") /\ Len(scopes) >= 1
                    /\ n \in DOMAIN scopes[Len(scopes)]) =>
                    /\ ~lastCall'.ret
                    /\ Len(cerr') = Len(cerr) + 1
                    /\ IsDuplicate(cerr'[Len(cerr')])
              /\ (Stepped("markUsed") /\ lookup(scopes, n) = 0) =>
                    /\ Len(cerr') = Len(cerr) + 1
                    /\ lookup(scopes', n) # 0
                    /\ scopes'[lookup(scopes', n)][n].is_dummy]_vars

----------------------------------------------------------------------------
(* Properties of the temporaries *)

\* the identifiers written in the source
UserNames(s) == {s[i].lexeme : i \in {j \in 1..Len(s) : s[j].kind = "IDENT"}}

\* C13: whatever the spelling of the identifiers, a name that appears in the
\* source is never in the reclaim pool and is never the destination of a
\* LOAD_CONST or of a binary instruction.
C13_PoolHoldsOnlyTemporaries ==
    \A n \in UserNames(src) :
        /\ \A k \in 1..Len(freeTemps) : freeTemps[k] # n
        /\ \A k \in 1..Len(tac) :
              tac[k].op \in {"LOAD_CONST"} \cup BinaryOps => tac[k].dest # n

\* the names the table declares
Declared(sc) == UNION {DOMAIN sc[i] : i \in 1..Len(sc)}

\* the names of the unused-entries report
ReportedUnused(sc) == {e.name : e \in Range(getUnusedEntries(sc))}

\* C14: every instruction whose destination is a name of the source (a name
\* the table declares), whatever its spelling, and is not in the
\* unused-entries report is retained by eliminate; the initial live set holds
\* names of the source only.
C14_SeedRule ==
    pc \in {"once", "twice"} =>
        /\ \A k \in 1..Len(dceIn) :
              (/\ dceIn[k].dest \in Declared(scopes)
               /\ dceIn[k].dest \notin ReportedUnused(scopes)) =>
                  dceIn[k] \in Range(dceOut)
        /\ seedLive(dceIn, scopes) \subseteq Declared(scopes)

\* the reference analysis: backward liveness per definition over the
\* straight-line sequence, seeded with the names the table declares and marks
\* used; RefKeep gives the indices up to i whose result can reach such a name
RECURSIVE RefKeep(_, _, _)
RefKeep(t, i, live) ==
    IF i = 0 THEN {}
    ELSE IF t[i].dest \in live
    THEN {i} \cup RefKeep(t, i - 1, (live \ {t[i].dest}) \cup (Range(usesOf(t[i])) \ {EmptyStr}))
    ELSE RefKeep(t, i - 1, live)

Observable(sc) == Declared(sc) \ ReportedUnused(sc)

RefEliminate(t, sc) ==
    LET keep == RefKeep(t, Len(t), Observable(sc))
    IN  [k \in 1..Cardinality(keep) |->
            t[CHOOSE i \in keep : Cardinality({j \in keep : j <= i}) = k]]

\* C15: eliminate is exact: what it retains is what the reference
\* per-definition backward liveness analysis retains, no dead instruction
\* being kept.
C15_Exact == pc \in {"once", "twice"} => dceOut = RefEliminate(dceIn, scopes)

\* the instructions of t that define n, in order
DefsOf(t, n) == LET Defines(i) == i.dest = n IN SelectSeq(t, Defines)

IsPrefix(a, b) == Len(a) <= Len(b) /\ a = SubSeq(b, 1, Len(a))

----------------------------------------------------------------------------
(* Properties of promotion and updateEntry *)

\* the step completes a statement: parseStatement returns true
CompletesStatement == pc = "semi" /\ pc' = "program"

\* C17: when the left-hand name of a completed statement resolves, through
\* all frames, to a dummy entry, that very entry becomes a float variable
\* that is no dummy and is declared at the line of the left-hand identifier,
\* its scope level and address are preserved, is_used is not cleared, and
\* no entry of that name appears in any other frame, at whatever depth.
C17_PromotionInPlace ==
    [][(CompletesStatement /\ lookup(scopes, lhs) # 0
          /\ scopes[lookup(scopes, lhs)][lhs].is_dummy) =>
          LET f == lookup(scopes, lhs)
              old == scopes[f][lhs]
          IN  /\ Len(scopes') = Len(scopes)
              /\ \A i \in 1..Len(scopes) :
                    lhs \in DOMAIN scopes'[i] <=> lhs \in DOMAIN scopes[i]
              /\ scopes'[f][lhs].kind = "variable"
              /\ scopes'[f][lhs].type = "float"
              /\ ~scopes'[f][lhs].is_dummy
              /\ scopes'[f][lhs].decl_line = lhsLine
              /\ scopes'[f][lhs].scopeLevel = old.scopeLevel
              /\ scopes'[f][lhs].memoryAddr = old.memoryAddr
              /\ old.is_used => scopes'[f][lhs].is_used]_vars

\* C18: updateEntry(name, patch) touches the innermost frame only: an entry
\* bound there is patched and true is returned; a name not bound there, even
\* when bound in an outer frame, gets a default variable/unknown entry in the
\* innermost frame, which is then patched, the outer frames staying as they
\* were; false is returned, with no patch applied, only when that implicit
\* insert fails.  No diagnostic is issued.
C18_UpdateEntryIsLocal ==
    [][Stepped("updateEntry") =>
          LET n   == lastCall'.name
              top == Len(scopes)
          IN  /\ errors' = errors /\ cerr' = cerr /\ fault' = "none"
              /\ \E u \in {setTypeFloat, setValue42} :
                    IF top = 0
                    THEN ~lastCall'.ret /\ scopes' = scopes
                    ELSE IF n \in DOMAIN scopes[top]
                    THEN /\ lastCall'.ret
                         /\ scopes' = [scopes EXCEPT ![top][n] = u @@ @]
                         /\ nextMemoryIndex' = nextMemoryIndex
                    ELSE /\ lastCall'.ret
                         /\ Len(scopes') = top
                         /\ \A i \in 1..(top - 1) : scopes'[i] = scopes[i]
                         /\ DOMAIN scopes'[top] = DOMAIN scopes[top] \cup {n}
                         /\ \A m \in DOMAIN scopes[top] : scopes'[top][m] = scopes[top][m]
                         /\ scopes'[top][n].kind = "variable"
                         /\ scopes'[top][n].type
                               = (IF "type" \in DOMAIN u THEN u.type ELSE "unknown")
                         /\ scopes'[top][n].value
                               = (IF "value" \in DOMAIN u THEN u.value ELSE EmptyStr)
                         /\ scopes'[top][n].scopeLevel = top - 1
                         /\ scopes'[top][n].decl_line = -1
                         /\ ~scopes'[top][n].is_dummy /\ ~scopes'[top][n].is_used]_vars

C18_Witness ==
    /\ lastCall.op = "updateEntry" /\ lastCall.name = nx /\ lastCall.ret
    /\ Len(scopes) = 2
    /\ nx \in DOMAIN scopes[1] /\ nx \in DOMAIN scopes[2]
    /\ scopes[1][nx].decl_line = ApiLine /\ scopes[1][nx].type = "int"
    /\ scopes[2][nx].decl_line = -1 /\ scopes[2][nx].type = "float"

----------------------------------------------------------------------------
(* Properties of insertTokenPlaceholder and getUnusedEntries *)

\* C19: insertTokenPlaceholder(name, line) never produces a diagnostic: when
\* the name exists in the current frame it returns false and changes
\* nothing; otherwise it returns true and the current frame holds a new entry
\* of kind token, type unknown, is_dummy set, is_used clear, decl_line = line,
\* every other entry staying as it was.
C19_PlaceholderIsSilent ==
    [][Stepped("insertTokenPlaceholder") =>
          LET n   == lastCall'.name
              top == Len(scopes)
          IN  /\ errors' = errors /\ cerr' = cerr /\ fault' = "none"
              /\ IF top >= 1 /\ n \in DOMAIN scopes[top]
                 THEN /\ ~lastCall'.ret
                      /\ scopes' = scopes
                      /\ nextMemoryIndex' = nextMemoryIndex
                 ELSE /\ lastCall'.ret
                      /\ top >= 1
                      /\ Len(scopes') = top
                      /\ \A i \in 1..(top - 1) : scopes'[i] = scopes[i]
                      /\ DOMAIN scopes'[top] = DOMAIN scopes[top] \cup {n}
                      /\ \A m \in DOMAIN scopes[top] : scopes'[top][m] = scopes[top][m]
                      /\ scopes'[top][n].kind = "token"
                      /\ scopes'[top][n].type = "unknown"
                      /\ scopes'[top][n].is_dummy
                      /\ ~scopes'[top][n].is_used
                      /\ scopes'[top][n].decl_line = ApiLine]_vars

\* the (frame, name) pairs of the entries whose is_used is clear
UnusedPairs(sc) ==
    {p \in (1..Len(sc)) \X ApiNames : p[2] \in DOMAIN sc[p[1]] /\ ~sc[p[1]][p[2]].is_used}

\* C20: getUnusedEntries() returns exactly the entries, over all frames,
\* whose is_used is clear (each once, no used entry, none missing), every
\* entry of an inner frame before any entry of an outer frame, and it leaves
\* the table as it was.
C20_UnusedEntriesExact ==
    [][Stepped("getUnusedEntries") =>
          LET res == lastCall'.ret
          IN  /\ scopes' = scopes /\ nextMemoryIndex' = nextMemoryIndex
              /\ errors' = errors /\ cerr' = cerr /\ fault' = "none"
              /\ Len(res) = Cardinality(UnusedPairs(scopes))
              /\ \A p \in UnusedPairs(scopes) :
                    \E k \in 1..Len(res) : res[k] = scopes[p[1]][p[2]]
              /\ \A k \in 1..Len(res) :
                    \E p \in UnusedPairs(scopes) : res[k] = scopes[p[1]][p[2]]
              /\ \A k, l \in 1..Len(res) :
                    k < l => res[k].scopeLevel >= res[l].scopeLevel]_vars

C20_Witness ==
    /\ lastCall.op = "getUnusedEntries"
    /\ Len(scopes) = 2
    /\ nx \in DOMAIN scopes[1] /\ ~scopes[1][nx].is_used
    /\ nx \in DOMAIN scopes[2] /\ ~scopes[2][nx].is_used
    /\ lastCall.ret = <<scopes[2][nx], scopes[1][nx]>>

----------------------------------------------------------------------------
(* Addresses *)

\* the (frame, name) pairs of the entries of sc
Pairs(sc) == UNION {{<<i, n>> : n \in DOMAIN sc[i]} : i \in 1..Len(sc)}

\* the pairs whose address was assigned by insert, not chosen by the client
AutoPairs(sc) ==
    {p \in Pairs(sc) : sc[p[1]][p[2]].memoryAddr \notin {EmptyStr, ApiAddr}}

\* C21: addresses come from one increasing counter shared by all kinds and
\* scopes: an entry stored by a successful insert has a non-empty address;
\* two entries with auto-assigned addresses have different addresses, each
\* made from a counter value below the current one; the counter advances by
\* exactly one per auto-assignment, never on a failed insert, and falls only
\* at clear(); and the address of an entry that stays in the table never
\* changes.
C21_AddressesFromOneCounter ==
    [][/\ \A p, q \in AutoPairs(scopes') :
             p # q => scopes'[p[1]][p[2]].memoryAddr # scopes'[q[1]][q[2]].memoryAddr
       /\ \A p \in AutoPairs(scopes') :
             \E k \in 0..(nextMemoryIndex' - 1) :
                scopes'[p[1]][p[2]].memoryAddr = NewAddress(scopes'[p[1]][p[2]], k)
       /\ Stepped("insert") =>
             LET n   == lastCall'.name
                 top == Len(scopes)
             IN  IF lastCall'.ret
                 THEN /\ scopes'[top][n].memoryAddr # EmptyStr
                      /\ IF <<top, n>> \in AutoPairs(scopes')
                         THEN /\ nextMemoryIndex' = nextMemoryIndex + 1
                              /\ scopes'[top][n].memoryAddr
                                    = NewAddress(scopes'[top][n], nextMemoryIndex)
                         ELSE nextMemoryIndex' = nextMemoryIndex
                 ELSE nextMemoryIndex' = nextMemoryIndex
       /\ IF Stepped("clear") THEN nextMemoryIndex' = 0
          ELSE nextMemoryIndex' - nextMemoryIndex
                  = Cardinality({p \in AutoPairs(scopes') : p \notin Pairs(scopes)})
       /\ nextMemoryIndex' - nextMemoryIndex \in {0, 1} \/ Stepped("clear")
       /\ \A p \in Pairs(scopes) :
             p \in Pairs(scopes') =>
                scopes'[p[1]][p[2]].memoryAddr = scopes[p[1]][p[2]].memoryAddr]_vars

C21_Witness ==
    /\ lastCall.op = "insert" /\ lastCall.ret
    /\ Len(scopes) = 2
    /\ nx \in DOMAIN scopes[1] /\ ny \in DOMAIN scopes[1] /\ nx \in DOMAIN scopes[2]
    /\ scopes[1][nx].memoryAddr = ApiAddr
    /\ scopes[1][ny].memoryAddr = <<"0", "x", "1", "0", "0", "0">>
    /\ scopes[2][nx].memoryAddr = <<"s", "t", "k", "1">>
    /\ nextMemoryIndex = 2

----------------------------------------------------------------------------
(* Properties of the ErrorHandler *)

ReportOps == {"report", "reportError", "reportWarning", "reportInfo", "reportFatal"}

\* the record a reporting call was asked to store
Given(call) ==
    LET a == call.args
    IN  IF call.op = "report"
        THEN CompilerError(a.phase, a.severity, a.message, a.line, a.column, a.recoverable)
        ELSE IF call.op = "reportError"
        THEN CompilerError(a.phase, "ERROR", a.message, a.line, a.column, a.recoverable)
        ELSE IF call.op = "reportWarning"
        THEN CompilerError(a.phase, "WARNING", a.message, a.line, a.column, TRUE)
        ELSE IF call.op = "reportInfo"
        THEN CompilerError(a.phase, "INFO", a.message, a.line, a.column, TRUE)
        ELSE CompilerError(a.phase, "FATAL", a.message, a.line, a.column, FALSE)

WithSeverity(errs, S) == {k \in 1..Len(errs) : errs[k].severity \in S}

\* C22: every reporting call adds the record it was given at the end of what
\* getAll() returns and leaves the earlier records alone, clear() empties it
\* (so getAll() is the records reported since the last clear, in report
\* order); errorCount() is the number of stored records of severity ERROR or
\* FATAL, warningCount() the number of severity WARNING, hasFatal() holds iff
\* one has severity FATAL; right after clear() they are 0, 0 and false.
C22_QueriesMatchReports ==
    [][(pc = "err" /\ calls' = calls + 1) =>
          /\ lastCall'.op \in ReportOps =>
                getAll(errors') = Append(getAll(errors), Given(lastCall'))
          /\ lastCall'.op = "setStopOnFatal" => getAll(errors') = getAll(errors)
          /\ lastCall'.op = "clear" =>
                /\ getAll(errors') = <<>>
                /\ errorCount(errors') = 0
                /\ warningCount(errors') = 0
                /\ ~hasFatal(errors')
          /\ errorCount(errors') = Cardinality(WithSeverity(errors', {"ERROR", "FATAL"}))
          /\ warningCount(errors') = Cardinality(WithSeverity(errors', {"WARNING"}))
          /\ hasFatal(errors') <=> WithSeverity(errors', {"FATAL"}) # {}]_vars

C22_Witness ==
    /\ pc = "err" /\ ~stopOnFatal /\ fault = "none"
    /\ Len(errors) = 3
    /\ errors[1].severity = "ERROR" /\ errors[2].severity = "WARNING"
    /\ errors[3].severity = "FATAL" /\ ~errors[3].recoverable
    /\ errors[3].line = 42 /\ errors[3].column = 15
    /\ errorCount(errors) = 2 /\ warningCount(errors) = 1 /\ hasFatal(errors)

\* C23: report halts (throws) if and only if the report is non-recoverable,
\* has severity FATAL and stopOnFatal is set, which it is from construction;
\* the record is then already the last stored one, so hasFatal() holds;
\* reportInfo, reportWarning and reportError never halt whatever stopOnFatal
\* is, and with stopOnFatal off reportFatal stores the record and returns.
C23_HaltsIffFatal ==
    [][(pc = "err" /\ calls' = calls + 1) =>
          /\ calls = 0 => stopOnFatal
          /\ lastCall'.op \in ReportOps =>
                LET r == Given(lastCall')
                IN  /\ fault' \in {"none", "throw"}
                    /\ fault' = "throw"
                          <=> (~r.recoverable /\ r.severity = "FATAL" /\ stopOnFatal)
                    /\ lastCall'.ret <=> fault' = "none"
                    /\ fault' = "throw" =>
                          /\ errors'[Len(errors')] = r
                          /\ hasFatal(errors')
                    /\ lastCall'.op \in {"reportInfo", "reportWarning", "reportError"} =>
                          fault' = "none"
                    /\ (lastCall'.op = "reportFatal" /\ ~stopOnFatal) =>
                          /\ fault' = "none"
                          /\ errors' = Append(errors, r)
          /\ lastCall'.op \notin ReportOps => fault' = "none"]_vars

C23_Witness ==
    /\ pc = "err" /\ lastCall.op = "reportFatal" /\ ~lastCall.ret
    /\ fault = "throw" /\ stopOnFatal
    /\ Len(errors) = 2
    /\ errors[1].severity = "FATAL" /\ errors[1].recoverable
    /\ errors[2].severity = "FATAL" /\ ~errors[2].recoverable
    /\ hasFatal(errors)

----------------------------------------------------------------------------
(* Dependency closure of eliminate *)

\* the names an instruction reads
ReadsOf(i) ==
    (IF i.op = "ASSIGN" THEN {i.arg1}
     ELSE IF i.op \in BinaryOps THEN {i.arg1, i.arg2}
     ELSE {}) \ {EmptyStr}

\* the instructions of t at the indices K, in order
RECURSIVE AtIndices(_, _, _)
AtIndices(t, K, i) ==
    IF i > Len(t) THEN <<>>
    ELSE IF i \in K THEN <<t[i]>> \o AtIndices(t, K, i + 1)
    ELSE AtIndices(t, K, i + 1)

\* K is closed: with an instruction it holds every earlier definition of
\* every name the instruction reads
Closed(t, K) ==
    \A i \in K : \A u \in ReadsOf(t[i]) :
        \A j \in 1..(i - 1) : t[j].dest = u => j \in K

\* C24: the output of eliminate is the input restricted to a set of
\* positions that is dependency closed: for every retained instruction and
\* every name it reads, every instruction of the input that precedes it and
\* defines that name is retained as well.
C24_DependencyClosure ==
    pc \in {"once", "twice"} =>
        \E K \in SUBSET (1..Len(dceIn)) :
            AtIndices(dceIn, K, 1) = dceOut /\ Closed(dceIn, K)

C24_Witness ==
    /\ pc = "once"
    /\ dceIn = <<LoadConst(ny, Lit20), Binary("ADD", nx, nx, ny), LoadConst(ny, Lit20)>>
    /\ dceOut = <<LoadConst(ny, Lit20), Binary("ADD", nx, nx, ny)>>
    /\ ~scopes[2][ny].is_used

----------------------------------------------------------------------------
(* The shape of the code generated for a statement *)

\* the lowering the grammar prescribes, written on the parse tree: an
\* expression splits at its last '+' or '-', a term at its last '*' or '/'.
\* An operand of a reference instruction is an identifier of the source, or
\* the result of the instruction at an earlier position of the statement.
RefOp == ("PLUS" :> "ADD") @@ ("MINUS" :> "SUB") @@ ("STAR" :> "MUL") @@ ("SLASH" :> "DIV")

RefName(n) == [ref |-> FALSE, name |-> n, at |-> 0]
RefResult(k) == [ref |-> TRUE, name |-> EmptyStr, at |-> k]

RefInst(op, lit, a1, a2) == [op |-> op, lit |-> lit, a1 |-> a1, a2 |-> a2]

\* the last position of e that holds a lexeme of one of the kinds, or 0
LastIn(e, kinds) ==
    LET P == {p \in 1..Len(e) : e[p].kind \in kinds}
    IN  IF P = {} THEN 0 ELSE CHOOSE p \in P : \A q \in P : q <= p

RefFactor(l, base) ==
    IF l.kind = "FLOAT_LIT"
    THEN [code |-> <<RefInst("LOAD_CONST", l.lexeme, RefName(EmptyStr), RefName(EmptyStr))>>,
          val |-> RefResult(base + 1)]
    ELSE [code |-> <<>>, val |-> RefName(l.lexeme)]

RECURSIVE RefTerm(_, _)
RefTerm(t, base) ==
    LET p == LastIn(t, {"STAR", "SLASH"})
    IN  IF p = 0 THEN RefFactor(t[1], base)
        ELSE LET L == RefTerm(SubSeq(t, 1, p - 1), base)
                 R == RefFactor(t[p + 1], base + Len(L.code))
             IN  [code |-> L.code \o R.code
                             \o <<RefInst(RefOp[t[p].kind], EmptyStr, L.val, R.val)>>,
                  val |-> RefResult(base + Len(L.code) + Len(R.code) + 1)]

RECURSIVE RefExpr(_, _)
RefExpr(e, base) ==
    LET p == LastIn(e, {"PLUS", "MINUS"})
    IN  IF p = 0 THEN RefTerm(e, base)
        ELSE LET L == RefExpr(SubSeq(e, 1, p - 1), base)
                 R == RefTerm(SubSeq(e, p + 1, Len(e)), base + Len(L.code))
             IN  [code |-> L.code \o R.code
                             \o <<RefInst(RefOp[e[p].kind], EmptyStr, L.val, R.val)>>,
                  val |-> RefResult(base + Len(L.code) + Len(R.code) + 1)]

\* the name of seg that the reference operand v stands for
Operand(seg, v) == IF v.ref THEN seg[v.at].dest ELSE v.name

\* seg is the code of the statement st (IDENT '=' expr ';')
LowersTo(st, seg) ==
    LET r == RefExpr(SubSeq(st, 3, Len(st) - 1), 0)
        n == Len(r.code)
    IN  /\ Len(seg) = n + 1
        /\ \A k \in 1..n :
              /\ seg[k].op = r.code[k].op
              /\ seg[k].dest # EmptyStr
              /\ IF seg[k].op = "LOAD_CONST"
                 THEN seg[k] = LoadConst(seg[k].dest, r.code[k].lit)
                 ELSE seg[k] = Binary(r.code[k].op, seg[k].dest,
                                      Operand(seg, r.code[k].a1), Operand(seg, r.code[k].a2))
        /\ seg[n + 1] = Assign(st[1].lexeme, Operand(seg, r.val))

\* the first ';' of s
FirstSemi(s) == CHOOSE p \in 1..Len(s) : s[p].kind = "SEMICOLON"
                                          /\ \A q \in 1..(p - 1) : s[q].kind # "SEMICOLON"

\* t is the code of the statements of s, one after the other
RECURSIVE LowersProgram(_, _)
LowersProgram(s, t) ==
    IF s = <<>> THEN t = <<>>
    ELSE LET p  == FirstSemi(s)
             st == SubSeq(s, 1, p)
             n  == Len(RefExpr(SubSeq(st, 3, p - 1), 0).code) + 1
         IN  /\ Len(t) >= n
             /\ LowersTo(st, SubSeq(t, 1, n))
             /\ LowersProgram(SubSeq(s, p + 1, Len(s)), SubSeq(t, n + 1, Len(t)))

\* C25: for a well-formed statement `n = e;` with k literals and m operators
\* generate appends k LoadConstant instructions carrying the literal texts,
\* m binary instructions ('+' Add, '-' Subtract, '*' Multiply, '/' Divide)
\* and one Assign(n, r) as the last; an identifier operand emits nothing;
\* operators of one tier fold to the left, and the '*' and '/' of a term are
\* emitted before the '+' or '-' that consumes the term.
C25_LoweringShape ==
    (pc = "done" /\ NoSyntaxError) => LowersProgram(src, tac)

C25_Witness ==
    /\ pc = "done" /\ NoSyntaxError
    /\ src = <<Id(nx), Eq, Id(nx), Minus, Id(ny), Slash, Num(Lit20), Semi>>
    /\ Len(tac) = 4
    /\ tac[1] = LoadConst(tac[1].dest, Lit20)
    /\ tac[2] = Binary("DIV", tac[2].dest, ny, tac[1].dest)
    /\ tac[3] = Binary("SUB", tac[3].dest, nx, tac[2].dest)
    /\ tac[4] = Assign(nx, tac[3].dest)

----------------------------------------------------------------------------
(* Properties of generate on damaged sources *)

Assigns(t) == {k \in 1..Len(t) : t[k].op = "ASSIGN"}

\* the entries that are declarations: the concrete (non-dummy) ones
Concrete(sc) == {p \in Pairs(sc) : ~sc[p[1]][p[2]].is_dummy}

\* C26: generate only appends to the instruction sequence (what is emitted
\* stays, in place, whatever comes later), and an Assign is emitted exactly by
\* the step that completes a statement through its ';': it is the Assign to
\* the statement's left-hand name, and no other step of generate adds an
\* Assign or makes an entry concrete.
C26_AppendOnly ==
    [][pc \notin {"done", "eliminated"} =>
          /\ IsPrefix(tac, tac')
          /\ IF CompletesStatement
             THEN /\ Len(tac') = Len(tac) + 1
                  /\ tac'[Len(tac')].op = "ASSIGN"
                  /\ tac'[Len(tac')].dest = lhs
                  /\ cur.kind = "SEMICOLON"
                  /\ Concrete(scopes') \ Concrete(scopes) \subseteq {<<1, lhs>>}
             ELSE /\ Assigns(tac') = Assigns(tac)
                  /\ Concrete(scopes') = Concrete(scopes)
                  /\ pc = "semi" => cur.kind # "SEMICOLON"]_vars

C26_Witness ==
    /\ pc = "done"
    /\ src = <<Id(ny), Eq, Num(Lit20), Semi, Id(nx), Eq>>
    /\ \E k \in 1..Len(errors) : errors[k].phase = "SYNTAX"
    /\ tac = <<LoadConst(t0, Lit20), Assign(ny, t0)>>
    /\ Concrete(scopes) = {<<1, ny>>}

SkipMessage == <<"Skipping to next ';' on parse error">>

\* the position of the lexeme (or of the end marker) at a line and column
PosOf(s, line, column) ==
    CHOOSE p \in 1..(Len(s) + 1) : LineAt(s, p) = line /\ ColAt(s, p) = column

\* where the lookahead stood when the error being recovered from was found
DetectedAt ==
    LET K == {k \in 1..Len(errors) : errors[k].message = SkipMessage}
        k == CHOOSE k \in K : \A j \in K : j <= k
    IN  PosOf(src, errors[k].line, errors[k].column)

\* the position parsing resumes at after an error found at p: just after the
\* first ';' at or after p, or the end of the input
ResumeAt(p) ==
    LET S == {q \in p..Len(src) : src[q].kind = "SEMICOLON"}
    IN  IF S = {} THEN Len(src) + 1
        ELSE (CHOOSE q \in S : \A r \in S : q <= r) + 1

\* the lookahead stands at position p of the source
LookaheadAt(c, i, p) ==
    IF p <= Len(src)
    THEN c.kind = src[p].kind /\ c.lexeme = src[p].lexeme /\ i = p + 1
    ELSE c.kind = "END_OF_FILE" /\ i = Len(src) + 1

\* what a step of the recovery does
RecoveryStep ==
    /\ pc = "recover" =>
          /\ pc' = "skip"
          /\ tac' = tac
          /\ LookaheadAt(cur', idx', DetectedAt')
    /\ pc = "skip" =>
          /\ tac' = tac
          /\ DetectedAt' = DetectedAt
          /\ pc' \in {"skip", "program"}
          /\ pc' = "skip" =>
                \E p \in DetectedAt..ResumeAt(DetectedAt) :
                    /\ LookaheadAt(cur', idx', p)
                    /\ p = ResumeAt(DetectedAt) => cur'.kind = "END_OF_FILE"
          /\ pc' = "program" =>
                /\ LookaheadAt(cur', idx', ResumeAt(DetectedAt))
                /\ (DetectedAt <= Len(src) => ResumeAt(DetectedAt) > DetectedAt)

\* C27: after a syntax error found with the lookahead at position p the
\* generator emits nothing until it has discarded the lexemes from p up to
\* and including the first ';' at or after p (or up to the end of the input),
\* and statement parsing resumes with the lexeme after that ';'; a recovery
\* consumes at least one lexeme unless the end of the input was reached.  For
\* `a = 1 b = 2; c = 3;` no Assign to a or to b is emitted and one to c is.
C27_RecoveryWindow ==
    /\ []((src = SrcRecover /\ pc = "done") =>
              /\ \A k \in Assigns(tac) : tac[k].dest = nc
              /\ Cardinality(Assigns(tac)) = 1)
    /\ [][RecoveryStep]_vars

C27_Witness ==
    /\ src = SrcRecover /\ pc = "done"
    /\ tac = <<LoadConst(t0, Lit1), LoadConst(t1, Lit3), Assign(nc, t1)>>
    /\ Cardinality({k \in 1..Len(errors) : errors[k].message = SkipMessage}) = 1

----------------------------------------------------------------------------
(* The flags of an entry *)

\* C28: for as long as an entry exists its is_used never goes from true to
\* false and its is_dummy never goes from false to true; is_dummy goes from
\* true to false (hence at most once) only in the step that completes a
\* statement whose left-hand name is the entry's name, never because the
\* name was read or lexed.
C28_FlagsMonotone ==
    [][\A p \in Pairs(scopes) \cap Pairs(scopes') :
          LET old == scopes[p[1]][p[2]]
              new == scopes'[p[1]][p[2]]
          IN  /\ old.is_used => new.is_used
              /\ ~old.is_dummy => ~new.is_dummy
              /\ (old.is_dummy /\ ~new.is_dummy) =>
                    (CompletesStatement /\ p[2] = lhs)]_vars

C28_Witness ==
    /\ pc = "done" /\ symtab /\ src = SrcSumRead
    /\ scopes[1][nx].kind = "variable" /\ scopes[1][nx].type = "float"
    /\ ~scopes[1][nx].is_dummy /\ scopes[1][nx].is_used
    /\ scopes[1][nx].memoryAddr = <<"s", "t", "k", "0">>
    /\ scopes[1][nx].decl_line = 1

----------------------------------------------------------------------------
(* Consequences for the whole run *)

\* no identifier of the source begins with the letter t
NoTNames(s) == \A i \in 1..Len(s) : s[i].kind = "IDENT" => s[i].lexeme[1] # "t"

\* C29: after generate every destination of an emitted Assign is marked used
\* in the symbol table; hence for a program without syntax errors, processed
\* in the global scope, in which no identifier begins with t, eliminate with
\* the final symbol table returns the generated sequence unchanged, whether
\* or not an assigned variable is ever read.
C29_NothingRemoved ==
    /\ pc \in {"program", "done"} =>
          \A k \in Assigns(tac) :
              /\ lookup(scopes, tac[k].dest) # 0
              /\ scopes[lookup(scopes, tac[k].dest)][tac[k].dest].is_used
    /\ (pc = "eliminated" /\ NoSyntaxError /\ NoTNames(src)) =>
          /\ dceOut = dceIn
          /\ tac = dceIn

C29_Witness ==
    /\ pc = "eliminated" /\ src = SrcReassign /\ NoSyntaxError
    /\ Len(dceIn) = 4
    /\ dceOut = dceIn
    /\ \A k \in 1..Len(dceIn) : nx \notin ReadsOf(dceIn[k])

----------------------------------------------------------------------------
(* Reuse of temporaries *)

Temporary(n) == Len(n) > 0 /\ n[1] = "t"

\* the results of sub-expressions that no instruction has consumed yet
Pending == {v \in {eLeft, tLeft, fres} : Temporary(v)}

\* the sequence generate() emitted
Emitted == IF pc = "eliminated" THEN dceIn ELSE tac

\* values: <<"VAR", n>> is what the variable n held before the program ran,
\* <<"LIT", l>> the literal l, <<op, a, b>> the operator applied to a and b
ValueIn(env, n) == IF n \in DOMAIN env THEN env[n] ELSE <<"VAR", n>>

ValueOfInst(i, env) ==
    IF i.op = "LOAD_CONST" THEN <<"LIT", i.arg1Literal>>
    ELSE IF i.op \in BinaryOps THEN <<i.op, ValueIn(env, i.arg1), ValueIn(env, i.arg2)>>
    ELSE ValueIn(env, i.arg1)

\* the instructions of t from position k on, executed in order
RECURSIVE Exec(_, _, _)
Exec(t, k, env) ==
    IF k > Len(t) THEN env
    ELSE Exec(t, k + 1, (t[k].dest :> ValueOfInst(t[k], env)) @@ env)

\* the value of an expression under the usual precedence and associativity
ValFactor(l, env) ==
    IF l.kind = "FLOAT_LIT" THEN <<"LIT", l.lexeme>> ELSE ValueIn(env, l.lexeme)

RECURSIVE ValTerm(_, _)
ValTerm(t, env) ==
    LET p == LastIn(t, {"STAR", "SLASH"})
    IN  IF p = 0 THEN ValFactor(t[1], env)
        ELSE <<RefOp[t[p].kind], ValTerm(SubSeq(t, 1, p - 1), env), ValFactor(t[p + 1], env)>>

RECURSIVE ValExpr(_, _)
ValExpr(e, env) ==
    LET p == LastIn(e, {"PLUS", "MINUS"})
    IN  IF p = 0 THEN ValTerm(e, env)
        ELSE <<RefOp[e[p].kind], ValExpr(SubSeq(e, 1, p - 1), env),
               ValTerm(SubSeq(e, p + 1, Len(e)), env)>>

\* the right-hand side of the statement whose ';' is the lookahead
CurrentExpr ==
    LET semi == idx - 1
        eq   == LastIn(SubSeq(src, 1, semi), {"ASSIGN"})
    IN  SubSeq(src, eq + 1, semi - 1)

PoolIsSound ==
    /\ Cardinality(Range(freeTemps)) = Len(freeTemps)
    /\ Pending \cap Range(freeTemps) = {}

ReadsAreDefined ==
    \A k \in 1..Len(Emitted) : \A n \in ReadsOf(Emitted[k]) :
        Temporary(n) =>
            \E j \in 1..(k - 1) :
                /\ Emitted[j].dest = n
                /\ \A m \in j..(k - 1) : Emitted[m].op # "ASSIGN"
                /\ \A m \in (j + 1)..(k - 1) : Emitted[m].dest # n

\* the statement being completed leaves the value of its expression in the
\* source of its Assign
StatementValue ==
    (CompletesStatement /\ NoTNames(src)) =>
        LET env == Exec(tac, 1, <<>>)
        IN  /\ tac' = Append(tac, Assign(lhs, eLeft))
            /\ ValueIn(env, eLeft) = ValExpr(CurrentExpr, env)
            /\ ValueIn(Exec(tac', 1, <<>>), lhs) = ValExpr(CurrentExpr, env)

\* C30: for every program in which no identifier begins with t, syntax
\* errors or not, no temporary in the reclaim pool is the pending result of
\* a sub-expression and none occurs twice in the pool; every temporary an
\* emitted instruction reads is defined by an earlier instruction of the
\* same statement and not redefined in between; and executing a statement's
\* instructions in order leaves in its Assign source the value of the
\* expression under the usual precedence and left-associativity.
C30_ReuseNeverClobbers ==
    /\ [](NoTNames(src) => (PoolIsSound /\ ReadsAreDefined))
    /\ [][StatementValue]_vars

C30_Witness ==
    /\ pc = "done" /\ NoTNames(src)
    /\ src = <<Id(nx), Eq, Num(Lit20), Star, Num(Lit20), Plus, Num(Lit20), Semi>>
    /\ tac = <<LoadConst(t0, Lit20), LoadConst(t1, Lit20), Binary("MUL", t2, t0, t1),
               LoadConst(t1, Lit20), Binary("ADD", t0, t2, t1), Assign(nx, t0)>>
    /\ freeTemps = <<t2, t1>>

====
